---------------------------- MODULE Spec2Model ----------------------------
(***************************************************************************)
(* Model of the supplier scoring and classification engine                 *)
(* (02_Strategic_Supplier_Classification/sample_code/                      *)
(* supplier_scoring_model.py, class SupplierScoringModel) and of the       *)
(* spend concentration analysis of segmentation_analysis.py, class         *)
(* SegmentationAnalyzer.                                                   *)
(*                                                                         *)
(* Numbers: the code computes in binary floating point.  The model         *)
(* computes the same expressions, operation by operation, over exact       *)
(* rationals <<numerator, denominator>> in lowest terms, denominator > 0.  *)
(***************************************************************************)
EXTENDS Integers, Sequences, FiniteSets, TLC

VARIABLES
    suppliers_data,          \* self.suppliers_data: None or a table
    bu_weights,              \* self.bu_weights
    segmentation_thresholds, \* self.segmentation_thresholds
    args,                    \* arguments of a calculate_supplier_score call: <<>> or <<[supplier_row, business_unit]>>
    returned,                \* outcome of the last operation that ended
    data,                    \* SegmentationAnalyzer: self.data
    analysis_results,        \* SegmentationAnalyzer: self.analysis_results
    pc,                      \* position of a classify_suppliers call in progress
    score_list,              \* classify_suppliers: the local list scores, by row
    classification_list,     \* classify_suppliers: the local list classifications, by row
    chain_data,              \* SupplyChainAnalyzer: self.data
    processed_data           \* SupplyChainAnalyzer: self.processed_data

vars == <<suppliers_data, bu_weights, segmentation_thresholds, args, returned,
          data, analysis_results, pc, score_list, classification_list,
          chain_data, processed_data>>

\* the fields of the SegmentationAnalyzer
analyzer == <<data, analysis_results>>

\* the locals of a classify_suppliers call in progress
pipeline == <<pc, score_list, classification_list>>

\* the fields of the SupplyChainAnalyzer
chain == <<chain_data, processed_data>>

----------------------------------------------------------------------------
(* Arithmetic of the code's numeric expressions, over exact rationals.     *)

Abs(n) == IF n < 0 THEN -n ELSE n

RECURSIVE GCD(_, _)
GCD(a, b) == IF b = 0 THEN a ELSE GCD(b, a % b)

\* n / d in lowest terms, d > 0
Norm(n, d) == LET g == GCD(Abs(n), d) IN <<n \div g, d \div g>>

Num(n) == <<n, 1>>

LCM(a, b) == (a \div GCD(a, b)) * b

Add(x, y) == LET l == LCM(x[2], y[2])
             IN  Norm(x[1] * (l \div x[2]) + y[1] * (l \div y[2]), l)

Sub(x, y) == LET l == LCM(x[2], y[2])
             IN  Norm(x[1] * (l \div x[2]) - y[1] * (l \div y[2]), l)

Mul(x, y) == LET g1 == GCD(Abs(x[1]), y[2])
                 g2 == GCD(Abs(y[1]), x[2])
             IN  <<(x[1] \div g1) * (y[1] \div g2), (x[2] \div g2) * (y[2] \div g1)>>

\* x / y, y # 0
Div(x, y) == IF y[1] > 0 THEN Mul(x, <<y[2], y[1]>>)
                         ELSE Mul(x, <<-y[2], -y[1]>>)

Le(x, y) == LET l == LCM(x[2], y[2])
            IN  x[1] * (l \div x[2]) <= y[1] * (l \div y[2])

Lt(x, y) == ~Le(y, x)

Max(a, b) == IF a >= b THEN a ELSE b

----------------------------------------------------------------------------
(* Configuration set up by __init__.                                       *)

BusinessUnits == {"Business_Unit_A", "Business_Unit_B"}

InitialBuWeights ==
    [Business_Unit_A |->
        [W0 |-> 100, W2 |-> 30, W3 |-> 20, W4 |-> 1, W5 |-> 25,
         W6 |-> 10, W7 |-> 25, W8 |-> 5, W9 |-> 5],
     Business_Unit_B |->
        [W0 |-> 100, W2 |-> 5, W3 |-> 5, W4 |-> 1, W5 |-> 20,
         W6 |-> 10, W7 |-> 25, W8 |-> 10, W9 |-> 20]]

InitialThresholds ==
    [Strategic |-> 95, Critical |-> 85, Operational |-> 45, Transactional |-> 0]

None == [kind |-> "None"]

----------------------------------------------------------------------------
(* A supplier row as generate_sample_supplier_data builds it from its      *)
(* draws.                                                                  *)

\* variant: the denominator is total parts + 1
source_ratio_shifted(parts, total_parts) == Norm(parts, total_parts + 1)

\* parts / max(total_parts, 1)
source_ratio(parts, total_parts) == Norm(parts, Max(total_parts, 1))

supplier(i, d) ==
    LET total_parts == d.Sole_Source_Parts + d.Single_Source_Parts + d.Multi_Source_Parts
    IN  [Supplier_ID         |-> i,
         Business_Unit       |-> d.Business_Unit,
         Annual_Spend        |-> d.Annual_Spend,
         Sole_Source_Parts   |-> d.Sole_Source_Parts,
         Single_Source_Parts |-> d.Single_Source_Parts,
         Multi_Source_Parts  |-> d.Multi_Source_Parts,
         Ramp_Time_Months    |-> d.Ramp_Time_Months,
         Partnership_Score   |-> d.Partnership_Score,
         Innovation_Score    |-> d.Innovation_Score,
         Supply_Risk_Score   |-> d.Supply_Risk_Score,
         Sole_Source_Ratio   |-> source_ratio(d.Sole_Source_Parts, total_parts),
         Single_Source_Ratio |-> source_ratio(d.Single_Source_Parts, total_parts),
         Multi_Source_Ratio  |-> source_ratio(d.Multi_Source_Parts, total_parts)]

----------------------------------------------------------------------------
(* calculate_supplier_score                                                *)

\* variant: the scale factor is not divided by 100
bu_impact_raw(weights) == Num(weights.W0)

bu_impact(weights) == Div(Num(weights.W0), Num(100))

bu_scale == Num(1)

sourcing_component(weights, supplier_row) ==
    Div(Add(Add(Mul(Num(weights.W2), supplier_row.Sole_Source_Ratio),
                Mul(Num(weights.W3), supplier_row.Single_Source_Ratio)),
            Mul(Num(weights.W4), supplier_row.Multi_Source_Ratio)),
        Num(100))

\* variant: the ramp ratio is not squared
ramp_component_linear(weights, supplier_row) ==
    LET r == Div(Num(supplier_row.Ramp_Time_Months), Num(12))
    IN  Div(Mul(Num(weights.W5), Sub(Num(1), Div(Num(1), Add(Num(1), r)))), Num(100))

ramp_component(weights, supplier_row) ==
    LET r  == Div(Num(supplier_row.Ramp_Time_Months), Num(12))
        sq == Mul(r, r)
    IN  Div(Mul(Num(weights.W5), Sub(Num(1), Div(Num(1), Add(Num(1), sq)))), Num(100))

spend_component(weights, supplier_row) ==
    Div(Mul(Num(weights.W6),
            Sub(Num(1), Div(Num(1), Add(Num(1), Div(Num(supplier_row.Annual_Spend), Num(100)))))),
        Num(100))

partnership_component(weights, supplier_row) ==
    Div(Mul(Num(weights.W7), Div(Num(supplier_row.Partnership_Score), Num(3))), Num(100))

innovation_component(weights, supplier_row) ==
    Div(Mul(Num(weights.W8), Div(Num(supplier_row.Innovation_Score), Num(3))), Num(100))

\* variant: the rating is not inverted
risk_component_direct(weights, supplier_row) ==
    Div(Mul(Num(weights.W9), Div(Num(supplier_row.Supply_Risk_Score), Num(3))), Num(100))

risk_component(weights, supplier_row) ==
    Div(Mul(Num(weights.W9), Div(Num(4 - supplier_row.Supply_Risk_Score), Num(3))), Num(100))

total_score(weights, supplier_row) ==
    Mul(Mul(bu_impact(weights), bu_scale),
        Add(Add(Add(Add(Add(sourcing_component(weights, supplier_row),
                            ramp_component(weights, supplier_row)),
                        spend_component(weights, supplier_row)),
                    partnership_component(weights, supplier_row)),
                innovation_component(weights, supplier_row)),
            risk_component(weights, supplier_row)))

\* variant: a unit without an entry gets the weights of Business_Unit_A
weights_lookup_default(w, business_unit) ==
    IF business_unit \in DOMAIN w THEN <<w[business_unit]>> ELSE <<w["Business_Unit_A"]>>

\* self.bu_weights[business_unit]: <<the entry>>, or <<>> where the lookup
\* raises KeyError
weights_lookup(w, business_unit) ==
    IF business_unit \in DOMAIN w THEN <<w[business_unit]>> ELSE <<>>

\* variant: the total is truncated to an integer before it is scaled
supplier_score_truncated(w, supplier_row, business_unit) ==
    LET t == total_score(w[business_unit], supplier_row)
    IN  Mul(Num(t[1] \div t[2]), Num(100))

\* The value calculate_supplier_score(supplier_row, business_unit) returns
\* under the weight table w.
supplier_score(w, supplier_row, business_unit) ==
    Mul(total_score(weights_lookup(w, business_unit)[1], supplier_row), Num(100))

----------------------------------------------------------------------------
(* classify_suppliers                                                      *)

DataFrame(columns, rows) == [kind |-> "DataFrame", columns |-> columns, rows |-> rows]

InputColumns ==
    {"Supplier_ID", "Business_Unit", "Annual_Spend", "Sole_Source_Parts",
     "Single_Source_Parts", "Multi_Source_Parts", "Ramp_Time_Months",
     "Partnership_Score", "Innovation_Score", "Supply_Risk_Score",
     "Sole_Source_Ratio", "Single_Source_Ratio", "Multi_Source_Ratio"}

\* pd.DataFrame(suppliers) for the list of rows built from the draws ds;
\* an empty list gives a frame without columns.
generated(ds) ==
    DataFrame(IF Len(ds) = 0 THEN {} ELSE InputColumns,
              [i \in 1..Len(ds) |-> supplier(i, ds[i])])

\* frame with column col set to the values vals, one per row
with_column(frame, col, vals) ==
    DataFrame(frame.columns \cup {col},
              [i \in 1..Len(frame.rows) |->
                  [f \in (DOMAIN frame.rows[i]) \cup {col} |->
                      IF f = col THEN vals[i] ELSE frame.rows[i][f]]])

column(frame, col) == [i \in 1..Len(frame.rows) |-> frame.rows[i][col]]

\* variant: the new scores are added to a Score column already present
scores_accumulated(w, frame) ==
    [i \in 1..Len(frame.rows) |->
        IF "Score" \in frame.columns
        THEN Add(frame.rows[i].Score,
                 supplier_score(w, frame.rows[i], frame.rows[i].Business_Unit))
        ELSE supplier_score(w, frame.rows[i], frame.rows[i].Business_Unit)]

\* the list scores: one calculate_supplier_score call per row, in row order
scores(w, frame) ==
    [i \in 1..Len(frame.rows) |->
        supplier_score(w, frame.rows[i], frame.rows[i].Business_Unit)]

\* variant: exclusive rank, Score < score
percentile_exclusive(Score, score) ==
    Mul(Div(Num(Cardinality({j \in 1..Len(Score) : Lt(Score[j], score)})),
            Num(Len(Score))),
        Num(100))

\* variant: share of the table at or above the score, Score >= score
percentile_descending(Score, score) ==
    Mul(Div(Num(Cardinality({j \in 1..Len(Score) : Le(score, Score[j])})),
            Num(Len(Score))),
        Num(100))

\* (self.suppliers_data['Score'] <= score).mean() * 100
percentile(Score, score) ==
    Mul(Div(Num(Cardinality({j \in 1..Len(Score) : Le(Score[j], score)})),
            Num(Len(Score))),
        Num(100))

\* variant: the Critical threshold is tested before the Strategic one
classification_reordered(p, thresholds) ==
    IF Le(Num(thresholds.Critical), p) THEN "Critical"
    ELSE IF Le(Num(thresholds.Strategic), p) THEN "Strategic"
    ELSE IF Le(Num(thresholds.Operational), p) THEN "Operational"
    ELSE "Transactional"

\* variant: the bottom segment ends at 40 percent, rows between 40 and the
\* Operational threshold fall through
classification_gap(p, thresholds) ==
    IF Le(Num(thresholds.Strategic), p) THEN "Strategic"
    ELSE IF Le(Num(thresholds.Critical), p) THEN "Critical"
    ELSE IF Le(Num(thresholds.Operational), p) THEN "Operational"
    ELSE IF Lt(p, Num(40)) THEN "Transactional"
    ELSE "Unclassified"

\* the if / elif chain over the thresholds
classification(p, thresholds) ==
    IF Le(Num(thresholds.Strategic), p) THEN "Strategic"
    ELSE IF Le(Num(thresholds.Critical), p) THEN "Critical"
    ELSE IF Le(Num(thresholds.Operational), p) THEN "Operational"
    ELSE "Transactional"

\* variant: rank by position, ties broken by row order
classifications_by_position(Score, thresholds) ==
    [i \in 1..Len(Score) |->
        classification(
            Mul(Div(Num(Cardinality({j \in 1..Len(Score) :
                            \/ Lt(Score[j], Score[i])
                            \/ Score[j] = Score[i] /\ j <= i})),
                    Num(Len(Score))),
                Num(100)),
            thresholds)]

\* the list classifications: one label per entry of scores, in row order
classifications(Score, thresholds) ==
    [i \in 1..Len(Score) |-> classification(percentile(Score, Score[i]), thresholds)]

\* variant: the table is returned with its rows in reverse order
classified_reversed(w, thresholds, frame) ==
    LET scored == with_column(frame, "Score", scores(w, frame))
        labelled == with_column(scored, "Classification",
                                classifications(column(scored, "Score"), thresholds))
    IN  DataFrame(labelled.columns,
                  [i \in 1..Len(labelled.rows) |->
                      labelled.rows[Len(labelled.rows) + 1 - i]])

classified(w, thresholds, frame) ==
    LET scored == with_column(frame, "Score", scores(w, frame))
    IN  with_column(scored, "Classification",
                    classifications(column(scored, "Score"), thresholds))

Outcome(op, raised, value) == [op |-> op, raised |-> raised, value |-> value]

NoCall == Outcome("none", "none", <<>>)

\* variant: a call without a table creates an empty one before it raises
classify_suppliers_raise_creating ==
    /\ suppliers_data = None
    /\ suppliers_data' = DataFrame({}, <<>>)
    /\ returned' = Outcome("classify_suppliers", "ValueError", <<>>)
    /\ UNCHANGED <<bu_weights, segmentation_thresholds, args>>
    /\ UNCHANGED analyzer
    /\ UNCHANGED <<pipeline, chain>>

classify_suppliers_raise ==
    /\ suppliers_data = None
    /\ returned' = Outcome("classify_suppliers", "ValueError", <<>>)
    /\ UNCHANGED <<suppliers_data, bu_weights, segmentation_thresholds, args>>
    /\ UNCHANGED analyzer
    /\ UNCHANGED <<pipeline, chain>>

\* the rows whose calculate_supplier_score call raises KeyError
unscorable(w, d) ==
    {i \in 1..Len(d.rows) : weights_lookup(w, d.rows[i].Business_Unit) = <<>>}

\* the scoring loop reaches a row whose business unit has no weights: the
\* KeyError leaves the loop before anything is assigned to the table
classify_suppliers_key_error ==
    /\ suppliers_data # None
    /\ unscorable(bu_weights, suppliers_data) # {}
    /\ returned' = Outcome("classify_suppliers", "KeyError", <<>>)
    /\ UNCHANGED <<suppliers_data, bu_weights, segmentation_thresholds, args>>
    /\ UNCHANGED analyzer
    /\ UNCHANGED <<pipeline, chain>>

classify_suppliers_run ==
    /\ suppliers_data # None
    /\ unscorable(bu_weights, suppliers_data) = {}
    /\ suppliers_data' = classified(bu_weights, segmentation_thresholds, suppliers_data)
    /\ returned' = Outcome("classify_suppliers", "none", <<>>)
    /\ UNCHANGED <<bu_weights, segmentation_thresholds, args>>
    /\ UNCHANGED analyzer
    /\ UNCHANGED <<pipeline, chain>>

classify_suppliers ==
    classify_suppliers_raise \/ classify_suppliers_key_error \/ classify_suppliers_run

\* generate_sample_supplier_data(n_suppliers) with the draws ds of its rows
generate_sample_supplier_data(ds) ==
    /\ suppliers_data' = generated(ds)
    /\ returned' = Outcome("generate_sample_supplier_data", "none", <<>>)
    /\ UNCHANGED <<bu_weights, segmentation_thresholds, args>>
    /\ UNCHANGED analyzer
    /\ UNCHANGED <<pipeline, chain>>

\* model.suppliers_data = table: a table of input columns is loaded
load_suppliers_data(table) ==
    /\ suppliers_data' = table
    /\ returned' = Outcome("load_suppliers_data", "none", <<>>)
    /\ UNCHANGED <<bu_weights, segmentation_thresholds, args>>
    /\ UNCHANGED analyzer
    /\ UNCHANGED <<pipeline, chain>>

\* model.bu_weights = w: the weight configuration is replaced
set_bu_weights(w) ==
    /\ bu_weights' = w
    /\ returned' = Outcome("set_bu_weights", "none", <<>>)
    /\ UNCHANGED <<suppliers_data, segmentation_thresholds, args>>
    /\ UNCHANGED analyzer
    /\ UNCHANGED <<pipeline, chain>>

\* model.segmentation_thresholds = thresholds: the thresholds are replaced
set_segmentation_thresholds(thresholds) ==
    /\ segmentation_thresholds' = thresholds
    /\ returned' = Outcome("set_segmentation_thresholds", "none", <<>>)
    /\ UNCHANGED <<suppliers_data, bu_weights, args>>
    /\ UNCHANGED analyzer
    /\ UNCHANGED <<pipeline, chain>>

\* variant: the score is also kept in the weight table of the unit
calculate_supplier_score_caching ==
    /\ args # <<>>
    /\ returned = NoCall
    /\ weights_lookup(bu_weights, args[1].business_unit) # <<>>
    /\ returned' = Outcome("calculate_supplier_score", "none",
                           <<supplier_score(bu_weights, args[1].supplier_row,
                                            args[1].business_unit)>>)
    /\ bu_weights' = [bu_weights EXCEPT ![args[1].business_unit].W0 = 0]
    /\ UNCHANGED <<suppliers_data, segmentation_thresholds, args>>
    /\ UNCHANGED analyzer
    /\ UNCHANGED <<pipeline, chain>>

\* a direct call calculate_supplier_score(supplier_row, business_unit) that
\* returns a score
calculate_supplier_score ==
    /\ args # <<>>
    /\ returned = NoCall
    /\ weights_lookup(bu_weights, args[1].business_unit) # <<>>
    /\ returned' = Outcome("calculate_supplier_score", "none",
                           <<supplier_score(bu_weights, args[1].supplier_row,
                                            args[1].business_unit)>>)
    /\ UNCHANGED <<suppliers_data, bu_weights, segmentation_thresholds, args>>
    /\ UNCHANGED analyzer
    /\ UNCHANGED <<pipeline, chain>>

\* a direct call whose weight lookup raises KeyError
calculate_supplier_score_raise ==
    /\ args # <<>>
    /\ returned = NoCall
    /\ weights_lookup(bu_weights, args[1].business_unit) = <<>>
    /\ returned' = Outcome("calculate_supplier_score", "KeyError", <<>>)
    /\ UNCHANGED <<suppliers_data, bu_weights, segmentation_thresholds, args>>
    /\ UNCHANGED analyzer
    /\ UNCHANGED <<pipeline, chain>>

----------------------------------------------------------------------------
(* analyze_segmentation_results                                            *)

\* the float nan, the value of 0 / 0 and of the mean, min and max of nothing
NaN == <<0, 0>>

RECURSIVE SumOf(_)
SumOf(seq) ==
    IF Len(seq) = 0 THEN Num(0)
    ELSE Add(SumOf(SubSeq(seq, 1, Len(seq) - 1)), seq[Len(seq)])

\* the entries count, mean, min and max of Series.describe(); std and the
\* quartiles are left out
describe(seq) ==
    IF Len(seq) = 0
    THEN [count |-> 0, mean |-> NaN, min |-> NaN, max |-> NaN]
    ELSE [count |-> Len(seq),
          mean  |-> Div(SumOf(seq), Num(Len(seq))),
          min   |-> seq[CHOOSE i \in 1..Len(seq) : \A j \in 1..Len(seq) : Le(seq[i], seq[j])],
          max   |-> seq[CHOOSE i \in 1..Len(seq) : \A j \in 1..Len(seq) : Le(seq[j], seq[i])]]

\* the dict analyze_segmentation_results returns for a classified table
segmentation_results(frame) ==
    LET n == Len(frame.rows)
        labels == {frame.rows[i].Classification : i \in 1..n}
        units == {frame.rows[i].Business_Unit : i \in 1..n}
    IN  [overall_distribution |->
            [l \in labels |-> Cardinality({i \in 1..n : frame.rows[i].Classification = l})],
         bu_breakdown |->
            [b \in units |->
                [l \in labels |->
                    Cardinality({i \in 1..n : /\ frame.rows[i].Business_Unit = b
                                              /\ frame.rows[i].Classification = l})]],
         score_stats |-> describe(column(frame, "Score"))]

analyze_segmentation_results_raise ==
    /\ IF suppliers_data = None THEN TRUE
       ELSE "Classification" \notin suppliers_data.columns
    /\ returned' = Outcome("analyze_segmentation_results", "ValueError", <<>>)
    /\ UNCHANGED <<suppliers_data, bu_weights, segmentation_thresholds, args>>
    /\ UNCHANGED analyzer
    /\ UNCHANGED <<pipeline, chain>>

analyze_segmentation_results_run ==
    /\ suppliers_data # None
    /\ "Classification" \in suppliers_data.columns
    /\ returned' = Outcome("analyze_segmentation_results", "none",
                           <<segmentation_results(suppliers_data)>>)
    /\ UNCHANGED <<suppliers_data, bu_weights, segmentation_thresholds, args>>
    /\ UNCHANGED analyzer
    /\ UNCHANGED <<pipeline, chain>>

analyze_segmentation_results ==
    analyze_segmentation_results_raise \/ analyze_segmentation_results_run

----------------------------------------------------------------------------
(* classify_suppliers step by step: the scoring loop, the assignment of    *)
(* the Score column, the labelling loop, the assignment of Classification. *)
(* The loops of the code visit the rows in index order; the steps below    *)
(* take the rows of a loop in any order, of which the code's is one.       *)

\* d with d[key] = value
with_item(d, key, value) ==
    [k \in (DOMAIN d) \cup {key} |-> IF k = key THEN value ELSE d[k]]

\* the call passes the None test and enters the scoring loop
classify_begin ==
    /\ pc = "idle"
    /\ suppliers_data # None
    /\ pc' = "scoring"
    /\ score_list' = <<>>
    /\ classification_list' = <<>>
    /\ UNCHANGED <<suppliers_data, bu_weights, segmentation_thresholds, args, returned>>
    /\ UNCHANGED <<analyzer, chain>>

\* one iteration of the scoring loop: the score of row i is appended
score_row(i) ==
    /\ pc = "scoring"
    /\ i \notin DOMAIN score_list
    /\ weights_lookup(bu_weights, suppliers_data.rows[i].Business_Unit) # <<>>
    /\ score_list' = with_item(score_list, i,
                               supplier_score(bu_weights, suppliers_data.rows[i],
                                              suppliers_data.rows[i].Business_Unit))
    /\ UNCHANGED <<suppliers_data, bu_weights, segmentation_thresholds, args, returned,
                   pc, classification_list>>
    /\ UNCHANGED <<analyzer, chain>>

\* one iteration of the scoring loop raises KeyError: the call ends
score_row_key_error(i) ==
    /\ pc = "scoring"
    /\ i \notin DOMAIN score_list
    /\ weights_lookup(bu_weights, suppliers_data.rows[i].Business_Unit) = <<>>
    /\ pc' = "idle"
    /\ score_list' = <<>>
    /\ returned' = Outcome("classify_suppliers", "KeyError", <<>>)
    /\ UNCHANGED <<suppliers_data, bu_weights, segmentation_thresholds, args,
                   classification_list>>
    /\ UNCHANGED <<analyzer, chain>>

\* variant: the scoring loop is left as soon as one score is there, the rows
\* without a score get 0
store_scores_early ==
    /\ pc = "scoring"
    /\ DOMAIN score_list # {} \/ Len(suppliers_data.rows) = 0
    /\ score_list' = [i \in 1..Len(suppliers_data.rows) |->
                         IF i \in DOMAIN score_list THEN score_list[i] ELSE Num(0)]
    /\ suppliers_data' = with_column(suppliers_data, "Score", score_list')
    /\ pc' = "labelling"
    /\ UNCHANGED <<bu_weights, segmentation_thresholds, args, returned, classification_list>>
    /\ UNCHANGED <<analyzer, chain>>

\* self.suppliers_data['Score'] = scores, after the last iteration
store_scores ==
    /\ pc = "scoring"
    /\ DOMAIN score_list = 1..Len(suppliers_data.rows)
    /\ suppliers_data' = with_column(suppliers_data, "Score",
                                     [i \in 1..Len(suppliers_data.rows) |-> score_list[i]])
    /\ pc' = "labelling"
    /\ UNCHANGED <<bu_weights, segmentation_thresholds, args, returned,
                   score_list, classification_list>>
    /\ UNCHANGED <<analyzer, chain>>

\* one iteration of the labelling loop: the label of scores[i] is appended
label_row(i) ==
    /\ pc = "labelling"
    /\ i \in 1..Len(suppliers_data.rows)
    /\ i \notin DOMAIN classification_list
    /\ classification_list' =
          with_item(classification_list, i,
                    classification(percentile(column(suppliers_data, "Score"), score_list[i]),
                                   segmentation_thresholds))
    /\ UNCHANGED <<suppliers_data, bu_weights, segmentation_thresholds, args, returned,
                   pc, score_list>>
    /\ UNCHANGED <<analyzer, chain>>

\* self.suppliers_data['Classification'] = classifications; return
store_classifications ==
    /\ pc = "labelling"
    /\ DOMAIN classification_list = 1..Len(suppliers_data.rows)
    /\ suppliers_data' = with_column(suppliers_data, "Classification",
                                     [i \in 1..Len(suppliers_data.rows) |->
                                         classification_list[i]])
    /\ pc' = "idle"
    /\ score_list' = <<>>
    /\ classification_list' = <<>>
    /\ returned' = Outcome("classify_suppliers", "none", <<>>)
    /\ UNCHANGED <<bu_weights, segmentation_thresholds, args>>
    /\ UNCHANGED <<analyzer, chain>>

----------------------------------------------------------------------------
(* SegmentationAnalyzer.spend_concentration_analysis                       *)

\* n / d in floats, for n, d >= 0 that are not both 0 only when d > 0
Quotient(n, d) == IF d = 0 THEN NaN ELSE Norm(n, d)

RECURSIVE Sum(_)
Sum(seq) == IF Len(seq) = 0 THEN 0 ELSE Sum(SubSeq(seq, 1, Len(seq) - 1)) + seq[Len(seq)]

\* Series.cumsum()
cumsum(seq) == [k \in 1..Len(seq) |-> Sum(SubSeq(seq, 1, k))]

\* seq with x inserted before the first element below it
RECURSIVE InsertDescending(_, _)
InsertDescending(seq, x) ==
    IF Len(seq) = 0 THEN <<x>>
    ELSE IF x >= seq[1] THEN <<x>> \o seq
    ELSE <<seq[1]>> \o InsertDescending(Tail(seq), x)

\* seq with x inserted before the first element above it
RECURSIVE InsertAscending(_, _)
InsertAscending(seq, x) ==
    IF Len(seq) = 0 THEN <<x>>
    ELSE IF x <= seq[1] THEN <<x>> \o seq
    ELSE <<seq[1]>> \o InsertAscending(Tail(seq), x)

\* variant: the spends are sorted in ascending order
RECURSIVE sorted_spend_ascending(_)
sorted_spend_ascending(spend) ==
    IF Len(spend) = 0 THEN <<>>
    ELSE InsertAscending(sorted_spend_ascending(Tail(spend)), spend[1])

\* the Annual_Spend column of sort_values('Annual_Spend', ascending=False)
RECURSIVE sorted_spend(_)
sorted_spend(spend) ==
    IF Len(spend) = 0 THEN <<>>
    ELSE InsertDescending(sorted_spend(Tail(spend)), spend[1])

\* (cumulative_spend / total_spend * 100 <= 80).sum(); a comparison with nan
\* is False
pareto_80_index(spend) ==
    LET cumulative_spend == cumsum(sorted_spend(spend))
        total_spend == Sum(spend)
    IN  Cardinality({k \in 1..Len(spend) :
                        total_spend # 0 /\ cumulative_spend[k] * 100 <= 80 * total_spend})

\* groupby('Classification')['Annual_Spend'].agg(['sum', 'count']) with the
\* columns avg_spend and spend_share
segment_spend(rows) ==
    LET of(l) == SelectSeq(rows, LAMBDA r : r.Classification = l)
        spend_of(l) == [k \in 1..Len(of(l)) |-> of(l)[k].Annual_Spend]
        total_spend == Sum([k \in 1..Len(rows) |-> rows[k].Annual_Spend])
    IN  [l \in {rows[k].Classification : k \in 1..Len(rows)} |->
            [sum         |-> Sum(spend_of(l)),
             count       |-> Len(of(l)),
             avg_spend   |-> Norm(Sum(spend_of(l)), Len(of(l))),
             spend_share |-> Quotient(Sum(spend_of(l)) * 100, total_spend)]]

\* the dict spend_concentration_analysis builds from a table of >= 1 rows
spend_analysis(frame) ==
    LET spend == column(frame, "Annual_Spend")
        head == SubSeq(sorted_spend(spend), 1,
                       IF Len(spend) < 10 THEN Len(spend) ELSE 10)
    IN  [pareto_80_suppliers_pct      |-> Norm(pareto_80_index(spend) * 100, Len(spend)),
         pareto_80_supplier_count     |-> pareto_80_index(spend),
         segment_spend_analysis       |-> segment_spend(frame.rows),
         top_10_suppliers_spend_share |-> Quotient(Sum(head) * 100, Sum(spend))]

\* sort_values('Annual_Spend') raises KeyError: the table has no such column
spend_concentration_analysis_key_error ==
    /\ "Annual_Spend" \notin data.columns
    /\ returned' = Outcome("spend_concentration_analysis", "KeyError", <<>>)
    /\ UNCHANGED <<suppliers_data, bu_weights, segmentation_thresholds, args>>
    /\ UNCHANGED analyzer
    /\ UNCHANGED <<pipeline, chain>>

spend_concentration_analysis_run ==
    /\ "Annual_Spend" \in data.columns
    /\ analysis_results' = with_item(analysis_results, "spend_analysis", spend_analysis(data))
    /\ returned' = Outcome("spend_concentration_analysis", "none", <<spend_analysis(data)>>)
    /\ UNCHANGED <<suppliers_data, bu_weights, segmentation_thresholds, args, data>>
    /\ UNCHANGED <<pipeline, chain>>

spend_concentration_analysis ==
    spend_concentration_analysis_key_error \/ spend_concentration_analysis_run

----------------------------------------------------------------------------
(* The other analyses of SegmentationAnalyzer. Entries that exist only as  *)
(* floats (standard deviations, the correlation with the logarithm of the  *)
(* spend) and averages over columns the analyzer tables of the model do    *)
(* not carry are left out of the dicts.                                    *)

\* the rows of a table that satisfy keep
filtered(rows, keep(_)) == SelectSeq(rows, keep)

\* Series.mean() of an integer column
mean_of(rows, col) ==
    IF Len(rows) = 0 THEN NaN
    ELSE Norm(Sum([k \in 1..Len(rows) |-> rows[k][col]]), Len(rows))

\* Series.mean() of the Score column
mean_score(rows) ==
    IF Len(rows) = 0 THEN NaN
    ELSE Div(SumOf([k \in 1..Len(rows) |-> rows[k].Score]), Num(Len(rows)))

spend_sum(rows) == Sum([k \in 1..Len(rows) |-> rows[k].Annual_Spend])

\* groupby('Classification').size().to_dict()
size_by_segment(rows) ==
    [l \in {rows[k].Classification : k \in 1..Len(rows)} |->
        Len(filtered(rows, LAMBDA r : r.Classification = l))]

\* the dict profiles of segment_profile_analysis
segment_profiles(frame) ==
    [segment \in {frame.rows[k].Classification : k \in 1..Len(frame.rows)} |->
        LET segment_data == filtered(frame.rows, LAMBDA r : r.Classification = segment)
        IN  [count               |-> Len(segment_data),
             avg_score           |-> mean_score(segment_data),
             avg_spend           |-> mean_of(segment_data, "Annual_Spend"),
             avg_innovation      |-> mean_of(segment_data, "Innovation_Score"),
             avg_risk            |-> mean_of(segment_data, "Supply_Risk_Score"),
             spend_concentration |-> Quotient(spend_sum(segment_data), spend_sum(frame.rows))]]

\* the dict bu_analysis of business_unit_analysis
bu_analysis(frame) ==
    [bu \in {frame.rows[k].Business_Unit : k \in 1..Len(frame.rows)} |->
        LET bu_data == filtered(frame.rows, LAMBDA r : r.Business_Unit = bu)
            strategic == filtered(bu_data, LAMBDA r : r.Classification = "Strategic")
        IN  [total_suppliers       |-> Len(bu_data),
             total_spend           |-> spend_sum(bu_data),
             avg_score             |-> mean_score(bu_data),
             segment_distribution  |->
                 [l \in DOMAIN size_by_segment(bu_data) |->
                     Norm(size_by_segment(bu_data)[l] * 100, Len(bu_data))],
             strategic_spend_share |->
                 Quotient(spend_sum(strategic) * 100, spend_sum(bu_data))]]

\* spend > Annual_Spend.quantile(0.8), the quantile interpolated linearly
\* between the two spends around position 0.8 * (n - 1)
above_quantile_80(spend, spends) ==
    LET n == Len(spends)
        ascending == [k \in 1..n |-> sorted_spend(spends)[n + 1 - k]]
        lo == ((4 * (n - 1)) \div 5) + 1
        part == (4 * (n - 1)) % 5
        step == IF part = 0 THEN 0 ELSE part * (ascending[lo + 1] - ascending[lo])
    IN  5 * spend > 5 * ascending[lo] + step

\* the dict of risk_concentration_analysis
risk_analysis(frame) ==
    LET high_risk == filtered(frame.rows, LAMBDA r : r.Supply_Risk_Score = 3)
        sole_source == filtered(frame.rows, LAMBDA r : r.Sole_Source_Parts > 0)
        spends == column(frame, "Annual_Spend")
    IN  [high_risk_by_segment    |-> size_by_segment(high_risk),
         sole_source_by_segment  |-> size_by_segment(sole_source),
         critical_risk_suppliers |->
             Len(filtered(high_risk,
                          LAMBDA r : r.Classification \in {"Strategic", "Critical"})),
         high_spend_high_risk    |->
             Len(filtered(high_risk,
                          LAMBDA r : above_quantile_80(r.Annual_Spend, spends)))]

\* the dict of innovation_potential_analysis
innovation_analysis(frame) ==
    LET high_innovation == filtered(frame.rows, LAMBDA r : r.Innovation_Score = 3)
    IN  [high_innovation_by_segment     |-> size_by_segment(high_innovation),
         strategic_innovation_suppliers |->
             Len(filtered(high_innovation, LAMBDA r : r.Classification = "Strategic")),
         untapped_innovation_potential  |->
             Len(filtered(high_innovation, LAMBDA r : r.Classification = "Transactional"))]

\* a / b in floats for a >= 0: nan when an operand is nan or both are 0
QuotientOf(a, b) == IF a = NaN \/ b = NaN \/ b[1] = 0 THEN NaN ELSE Div(a, b)

Square(q) == Mul(q, q)

\* Series.var(): the sample variance, nan for fewer than two values
variance(seq) ==
    IF Len(seq) < 2 THEN NaN
    ELSE LET m == Div(SumOf(seq), Num(Len(seq)))
         IN  Div(SumOf([k \in 1..Len(seq) |-> Square(Sub(seq[k], m))]),
                 Num(Len(seq) - 1))

\* the dict of segmentation_effectiveness_metrics
effectiveness_metrics(frame) ==
    LET labels == {frame.rows[k].Classification : k \in 1..Len(frame.rows)}
        of(l) == filtered(frame.rows, LAMBDA r : r.Classification = l)
        top == CHOOSE l \in labels : \A m \in labels : Le(mean_score(of(m)), mean_score(of(l)))
        bottom == CHOOSE l \in labels : \A m \in labels : Le(mean_score(of(l)), mean_score(of(m)))
        labelled == [k \in 1..Len(frame.rows) |->
                        Square(Sub(mean_score(of(frame.rows[k].Classification)),
                                   mean_score(frame.rows)))]
        between_segment_variance == Div(SumOf(labelled), Num(Len(frame.rows)))
    IN  [score_separation         |-> Sub(mean_score(of(top)), mean_score(of(bottom))),
         between_segment_variance |-> between_segment_variance,
         variance_ratio           |->
             QuotientOf(between_segment_variance, variance(column(frame, "Score")))]

\* an analysis stores its dict under key and returns it
analysis_call(op, key, value) ==
    /\ data # None
    /\ analysis_results' = with_item(analysis_results, key, value)
    /\ returned' = Outcome(op, "none", <<value>>)
    /\ UNCHANGED <<suppliers_data, bu_weights, segmentation_thresholds, args, data>>
    /\ UNCHANGED <<pipeline, chain>>

segment_profile_analysis ==
    analysis_call("segment_profile_analysis", "segment_profiles", segment_profiles(data))

business_unit_analysis ==
    analysis_call("business_unit_analysis", "business_unit_analysis", bu_analysis(data))

risk_concentration_analysis ==
    analysis_call("risk_concentration_analysis", "risk_analysis", risk_analysis(data))

innovation_potential_analysis ==
    analysis_call("innovation_potential_analysis", "innovation_analysis",
                  innovation_analysis(data))

segmentation_effectiveness_metrics ==
    analysis_call("segmentation_effectiveness_metrics", "effectiveness_metrics",
                  effectiveness_metrics(data))

\* analysis_results after the six analyses have run on a fresh analyzer
all_analyses(frame) ==
    [segment_profiles       |-> segment_profiles(frame),
     business_unit_analysis |-> bu_analysis(frame),
     risk_analysis          |-> risk_analysis(frame),
     spend_analysis         |-> spend_analysis(frame),
     innovation_analysis    |-> innovation_analysis(frame),
     effectiveness_metrics  |-> effectiveness_metrics(frame)]

\* analysis_results after the test `if not self.analysis_results`: the six
\* analyses run only when no result is stored at all
after_first_test(results, frame) ==
    IF DOMAIN results = {} THEN all_analyses(frame) ELSE results

\* the results generate_actionable_insights reads by subscript
ReadResults ==
    {"segment_profiles", "risk_analysis", "spend_analysis", "innovation_analysis",
     "effectiveness_metrics"}

\* the list insights; an entry stands for its sentence and holds the values
\* the sentence is formatted from
insights(results) ==
    LET profiles == results.segment_profiles
        critical_risk == results.risk_analysis.critical_risk_suppliers
        untapped == results.innovation_analysis.untapped_innovation_potential
        ratio == results.effectiveness_metrics.variance_ratio
    IN  (IF "Strategic" \in DOMAIN profiles
         THEN <<[about |-> "strategic_spend_share",
                 count |-> profiles.Strategic.count,
                 value |-> IF profiles.Strategic.spend_concentration = NaN THEN NaN
                           ELSE Mul(profiles.Strategic.spend_concentration, Num(100))]>>
         ELSE <<>>)
        \o (IF critical_risk > 0
            THEN <<[about |-> "critical_risk", count |-> critical_risk, value |-> NaN]>>
            ELSE <<>>)
        \o <<[about |-> "pareto", count |-> 0,
              value |-> results.spend_analysis.pareto_80_suppliers_pct]>>
        \o (IF untapped > 0
            THEN <<[about |-> "untapped_innovation", count |-> untapped, value |-> NaN]>>
            ELSE <<>>)
        \o (IF ratio # NaN /\ Lt(<<1, 2>>, ratio)
            THEN <<[about |-> "strong_effectiveness", count |-> 0, value |-> ratio]>>
            ELSE <<[about |-> "moderate_effectiveness", count |-> 0, value |-> ratio]>>)

\* a result read by subscript is missing: KeyError, after the first test
generate_actionable_insights_key_error ==
    /\ data # None
    /\ ~(ReadResults \subseteq DOMAIN after_first_test(analysis_results, data))
    /\ analysis_results' = after_first_test(analysis_results, data)
    /\ returned' = Outcome("generate_actionable_insights", "KeyError", <<>>)
    /\ UNCHANGED <<suppliers_data, bu_weights, segmentation_thresholds, args, data>>
    /\ UNCHANGED <<pipeline, chain>>

generate_actionable_insights_run ==
    /\ data # None
    /\ ReadResults \subseteq DOMAIN after_first_test(analysis_results, data)
    /\ analysis_results' = after_first_test(analysis_results, data)
    /\ returned' = Outcome("generate_actionable_insights", "none",
                           <<insights(after_first_test(analysis_results, data))>>)
    /\ UNCHANGED <<suppliers_data, bu_weights, segmentation_thresholds, args, data>>
    /\ UNCHANGED <<pipeline, chain>>

generate_actionable_insights ==
    generate_actionable_insights_key_error \/ generate_actionable_insights_run

\* self.analysis_results.get(key, {})
get(results, key) == IF key \in DOMAIN results THEN results[key] ELSE <<>>

\* the dict summary: its entries are evaluated in order, the six results
\* with get before the call of generate_actionable_insights; the entry
\* analysis_timestamp (the clock) is left out
summary(results, frame) ==
    [total_suppliers        |-> Len(frame.rows),
     segment_profiles       |-> get(results, "segment_profiles"),
     business_unit_analysis |-> get(results, "business_unit_analysis"),
     risk_analysis          |-> get(results, "risk_analysis"),
     spend_analysis         |-> get(results, "spend_analysis"),
     innovation_analysis    |-> get(results, "innovation_analysis"),
     effectiveness_metrics  |-> get(results, "effectiveness_metrics"),
     actionable_insights    |-> insights(after_first_test(results, frame))]

\* the call of generate_actionable_insights raises KeyError
export_analysis_summary_key_error ==
    /\ data # None
    /\ ~(ReadResults \subseteq DOMAIN after_first_test(analysis_results, data))
    /\ analysis_results' = after_first_test(analysis_results, data)
    /\ returned' = Outcome("export_analysis_summary", "KeyError", <<>>)
    /\ UNCHANGED <<suppliers_data, bu_weights, segmentation_thresholds, args, data>>
    /\ UNCHANGED <<pipeline, chain>>

export_analysis_summary_run ==
    /\ data # None
    /\ ReadResults \subseteq DOMAIN after_first_test(analysis_results, data)
    /\ analysis_results' = after_first_test(analysis_results, data)
    /\ returned' = Outcome("export_analysis_summary", "none",
                           <<summary(analysis_results, data)>>)
    /\ UNCHANGED <<suppliers_data, bu_weights, segmentation_thresholds, args, data>>
    /\ UNCHANGED <<pipeline, chain>>

export_analysis_summary ==
    export_analysis_summary_key_error \/ export_analysis_summary_run

----------------------------------------------------------------------------
(* SupplyChainAnalyzer (data_processing_example.py). A Date is the number  *)
(* of its day in 2023, 1..365; a Supply_Risk_Score is an exact rational.   *)

\* the last day of each month of 2023
MonthEnds == <<31, 59, 90, 120, 151, 181, 212, 243, 273, 304, 334, 365>>

\* dt.to_period('M'): the month of the date
Year_Month(date) ==
    [year |-> 2023, month |-> 1 + Cardinality({k \in 1..12 : MonthEnds[k] < date})]

\* dt.isocalendar().week: 2023-01-01 is a Sunday and belongs to week 52 of
\* 2022, week 1 starts on 2023-01-02
Week(date) == IF date = 1 THEN 52 ELSE ((date - 2) \div 7) + 1

\* pd.cut(Supply_Risk_Score, bins=[0, 2, 3, 4, 5]): intervals closed on the right
Risk_Category(score) ==
    IF ~Lt(Num(0), score) \/ Lt(Num(5), score) THEN NaN
    ELSE IF Le(score, Num(2)) THEN "Low"
    ELSE IF Le(score, Num(3)) THEN "Medium"
    ELSE IF Le(score, Num(4)) THEN "High"
    ELSE "Critical"

\* pd.cut(Market_Max_Qty, bins=[0, 50, 150, 300, inf])
Qty_Category(qty) ==
    IF qty <= 0 THEN NaN
    ELSE IF qty <= 50 THEN "Small"
    ELSE IF qty <= 150 THEN "Medium"
    ELSE IF qty <= 300 THEN "Large"
    ELSE "XLarge"

esdmapping == [On_Time |-> 0, Late_7_days |-> 7, Late_15_days |-> 15, Late_30_days |-> 30]

RawColumns ==
    {"Date", "Market", "Material_Group", "Material_ID", "Planner", "Priority_Level",
     "Tracking_Count", "ESD_Planning_Status", "Market_Max_Qty", "Supply_Risk_Score"}

DerivedChainColumns ==
    {"Year_Month", "Week", "Risk_Category", "Qty_Category", "Planning_Delay_Days"}

\* pd.DataFrame(data) of generate_sample_data: no columns without records
sample_data(records) ==
    DataFrame(IF Len(records) = 0 THEN {} ELSE RawColumns, records)

\* the copy df of clean_and_process_data with its derived columns
processed(frame) ==
    DataFrame(frame.columns \cup DerivedChainColumns,
              [i \in 1..Len(frame.rows) |->
                  LET r == frame.rows[i]
                  IN  [f \in (DOMAIN r) \cup DerivedChainColumns |->
                          IF f = "Year_Month" THEN Year_Month(r.Date)
                          ELSE IF f = "Week" THEN Week(r.Date)
                          ELSE IF f = "Risk_Category" THEN Risk_Category(r.Supply_Risk_Score)
                          ELSE IF f = "Qty_Category" THEN Qty_Category(r.Market_Max_Qty)
                          ELSE IF f = "Planning_Delay_Days"
                               THEN esdmapping[r.ESD_Planning_Status]
                          ELSE r[f]]])

\* the frame of a call on the SupplyChainAnalyzer
chain_frame == <<suppliers_data, bu_weights, segmentation_thresholds, args, analyzer, pipeline>>

generate_sample_data(records) ==
    /\ chain_data' = sample_data(records)
    /\ returned' = Outcome("generate_sample_data", "none", <<sample_data(records)>>)
    /\ UNCHANGED processed_data
    /\ UNCHANGED chain_frame

clean_and_process_data_raise ==
    /\ chain_data = None
    /\ returned' = Outcome("clean_and_process_data", "ValueError", <<>>)
    /\ UNCHANGED chain
    /\ UNCHANGED chain_frame

\* df['Date'] raises KeyError on a table without columns, before
\* processed_data is assigned
clean_and_process_data_key_error ==
    /\ chain_data # None
    /\ ~(RawColumns \subseteq chain_data.columns)
    /\ returned' = Outcome("clean_and_process_data", "KeyError", <<>>)
    /\ UNCHANGED chain
    /\ UNCHANGED chain_frame

\* variant: the derived columns are written to self.data itself, no copy
clean_and_process_data_in_place ==
    /\ chain_data # None
    /\ RawColumns \subseteq chain_data.columns
    /\ chain_data' = processed(chain_data)
    /\ processed_data' = processed(chain_data)
    /\ returned' = Outcome("clean_and_process_data", "none", <<processed(chain_data)>>)
    /\ UNCHANGED chain_frame

clean_and_process_data_run ==
    /\ chain_data # None
    /\ RawColumns \subseteq chain_data.columns
    /\ processed_data' = processed(chain_data)
    /\ returned' = Outcome("clean_and_process_data", "none", <<processed(chain_data)>>)
    /\ UNCHANGED chain_data
    /\ UNCHANGED chain_frame

clean_and_process_data ==
    \/ clean_and_process_data_raise
    \/ clean_and_process_data_key_error
    \/ clean_and_process_data_run

\* the values of a column that occur in rows
values_of(rows, col) == {rows[k][col] : k \in 1..Len(rows)}

\* the rows of a group of groupby(col)
group(rows, col, v) == filtered(rows, LAMBDA r : r[col] = v)

sum_of(rows, col) == Sum([k \in 1..Len(rows) |-> rows[k][col]])

\* Series.mean() of the Supply_Risk_Score column
mean_risk(rows) ==
    Div(SumOf([k \in 1..Len(rows) |-> rows[k].Supply_Risk_Score]), Num(Len(rows)))

\* round(2) of a number >= 0: to the nearest hundredth, a tie to the even one
round2(q) ==
    LET whole == (100 * q[1]) \div q[2]
        rest == (100 * q[1]) % q[2]
    IN  IF 2 * rest < q[2] THEN Norm(whole, 100)
        ELSE IF 2 * rest > q[2] THEN Norm(whole + 1, 100)
        ELSE IF whole % 2 = 0 THEN Norm(whole, 100)
        ELSE Norm(whole + 1, 100)

\* the dict of calculate_trend_metrics; a grouped table is the mapping from
\* its group key to its aggregates
trend_metrics(frame) ==
    LET rows == frame.rows
        on(r, cols) == [c \in cols |-> r[c]]
        with(cols, key) == filtered(rows, LAMBDA r : on(r, cols) = key)
        keys(cols) == {on(rows[k], cols) : k \in 1..Len(rows)}
    IN  [daily_trends |->
            [d \in values_of(rows, "Date") |->
                [Tracking_Count      |-> sum_of(group(rows, "Date", d), "Tracking_Count"),
                 Priority_Level      |-> mean_of(group(rows, "Date", d), "Priority_Level"),
                 Planning_Delay_Days |-> mean_of(group(rows, "Date", d), "Planning_Delay_Days"),
                 Supply_Risk_Score   |-> mean_risk(group(rows, "Date", d))]],
         market_trends |->
            [key \in keys({"Date", "Market"}) |->
                [Tracking_Count |-> sum_of(with({"Date", "Market"}, key), "Tracking_Count"),
                 Market_Max_Qty |-> sum_of(with({"Date", "Market"}, key), "Market_Max_Qty")]],
         material_trends |->
            [key \in keys({"Year_Month", "Material_Group"}) |->
                LET members == with({"Year_Month", "Material_Group"}, key)
                IN  [Tracking_Count      |-> sum_of(members, "Tracking_Count"),
                     Priority_Level      |-> mean_of(members, "Priority_Level"),
                     Planning_Delay_Days |-> mean_of(members, "Planning_Delay_Days")]],
         planner_performance |->
            [p \in values_of(rows, "Planner") |->
                [Tracking_Count      |-> sum_of(group(rows, "Planner", p), "Tracking_Count"),
                 Planning_Delay_Days |->
                     round2(mean_of(group(rows, "Planner", p), "Planning_Delay_Days")),
                 Supply_Risk_Score   |-> round2(mean_risk(group(rows, "Planner", p)))]]]

\* Series.unique(): the values in order of first appearance
RECURSIVE unique(_)
unique(seq) ==
    IF Len(seq) = 0 THEN <<>>
    ELSE LET front == unique(SubSeq(seq, 1, Len(seq) - 1))
         IN  IF \E k \in 1..Len(front) : front[k] = seq[Len(seq)] THEN front
             ELSE Append(front, seq[Len(seq)])

head(seq, n) == SubSeq(seq, 1, IF Len(seq) < n THEN Len(seq) ELSE n)

\* a sequence of integers in ascending order: the order of the groups of
\* groupby('Date') and of the values quantile interpolates between
RECURSIVE InsertionSort(_)
InsertionSort(seq) ==
    IF Len(seq) = 0 THEN <<>>
    ELSE InsertAscending(InsertionSort(Tail(seq)), seq[1])

\* strftime('%Y-%m-%d'): year, month and day of the date
strftime(date) ==
    LET month == Year_Month(date).month
    IN  <<2023, month, date - (IF month = 1 THEN 0 ELSE MonthEnds[month - 1])>>

\* the dates whose tracking sum is below quantile(0.1) of the daily sums,
\* the quantile interpolated linearly around position 0.1 * (n - 1)
low_tracking_days(rows) ==
    LET dates == InsertionSort(unique(column([rows |-> rows], "Date")))
        n == Len(dates)
        daily(d) == sum_of(group(rows, "Date", d), "Tracking_Count")
        ascending == InsertionSort([j \in 1..n |-> daily(dates[j])])
        lo == ((n - 1) \div 10) + 1
        part == (n - 1) % 10
        step == IF part = 0 THEN 0 ELSE part * (ascending[lo + 1] - ascending[lo])
    IN  filtered(dates, LAMBDA d : 10 * daily(d) < 10 * ascending[lo] + step)

\* the list alerts of identify_outliers_and_alerts
alerts(frame) ==
    LET high_delay == filtered(frame.rows, LAMBDA r : r.Planning_Delay_Days > 15)
        high_risk == filtered(frame.rows, LAMBDA r : Lt(Num(4), r.Supply_Risk_Score))
        low == low_tracking_days(frame.rows)
    IN  (IF Len(high_delay) > 0
         THEN <<[Alert_Type |-> "High_Planning_Delay", Count |-> Len(high_delay),
                 Affected_Planners |-> unique(column([rows |-> high_delay], "Planner"))]>>
         ELSE <<>>)
        \o (IF Len(high_risk) > 0
            THEN <<[Alert_Type |-> "High_Supply_Risk", Count |-> Len(high_risk),
                    Affected_Materials |->
                        head(unique(column([rows |-> high_risk], "Material_ID")), 10)]>>
            ELSE <<>>)
        \o (IF Len(low) > 0
            THEN <<[Alert_Type |-> "Low_Tracking_Volume", Count |-> Len(low),
                    Dates |-> [k \in 1..Len(low) |-> strftime(low[k])]]>>
            ELSE <<>>)

\* the group keys in the order groupby puts them
Markets ==
    <<"AUTOMOTIVE", "COMMUNICATIONS_EQUIPMENT", "ENTERPRISE_SYSTEMS", "INDUSTRIAL",
      "PERSONAL_ELECTRONICS">>

Planners == <<"Planner_01", "Planner_02">>

Materials == <<"MAT_10001", "MAT_10002", "MAT_10003">>

\* groupby(col)['Tracking_Count'].sum() as the sequence of <<key, sum>>
tracking_by(rows, order, col) ==
    LET present == SelectSeq(order, LAMBDA v : v \in values_of(rows, col))
    IN  [k \in 1..Len(present) |->
            <<present[k], sum_of(group(rows, col, present[k]), "Tracking_Count")>>]

\* pairs with pair put before the first entry of a smaller sum
RECURSIVE insert_pair(_, _)
insert_pair(pairs, pair) ==
    IF Len(pairs) = 0 THEN <<pair>>
    ELSE IF pair[2] > pairs[1][2] THEN <<pair>> \o pairs
    ELSE <<pairs[1]>> \o insert_pair(Tail(pairs), pair)

\* sort_values(ascending=False) and the order of nlargest: by descending
\* sum, entries of equal sums in the order of the keys
RECURSIVE sort_pairs(_)
sort_pairs(pairs) ==
    IF Len(pairs) = 0 THEN <<>>
    ELSE insert_pair(sort_pairs(SubSeq(pairs, 1, Len(pairs) - 1)), pairs[Len(pairs)])

\* the dict of generate_top_rankings
top_rankings(frame) ==
    [top_materials |->
         head(sort_pairs(tracking_by(frame.rows, Materials, "Material_ID")), 10),
     top_planners |->
         head(sort_pairs(tracking_by(frame.rows, Planners, "Planner")), 10),
     market_distribution |-> sort_pairs(tracking_by(frame.rows, Markets, "Market"))]

\* a method that reads self.processed_data: without it, the first use of
\* df = None raises; with it, the method returns its result
reader_call(op, error, value) ==
    /\ IF processed_data = None
       THEN returned' = Outcome(op, error, <<>>)
       ELSE returned' = Outcome(op, "none", <<value>>)
    /\ UNCHANGED chain
    /\ UNCHANGED chain_frame

calculate_trend_metrics_raise ==
    /\ processed_data = None
    /\ reader_call("calculate_trend_metrics", "AttributeError", <<>>)

calculate_trend_metrics_run ==
    /\ processed_data # None
    /\ reader_call("calculate_trend_metrics", "none", trend_metrics(processed_data))

identify_outliers_and_alerts_raise ==
    /\ processed_data = None
    /\ reader_call("identify_outliers_and_alerts", "TypeError", <<>>)

identify_outliers_and_alerts_run ==
    /\ processed_data # None
    /\ reader_call("identify_outliers_and_alerts", "none", alerts(processed_data))

generate_top_rankings_raise ==
    /\ processed_data = None
    /\ reader_call("generate_top_rankings", "AttributeError", <<>>)

generate_top_rankings_run ==
    /\ processed_data # None
    /\ reader_call("generate_top_rankings", "none", top_rankings(processed_data))

----------------------------------------------------------------------------
(* Bounds                                                                  *)

MaxSuppliers == 7

\* the draws of the rows of the classified tables
SupplierX ==
    [Business_Unit |-> "Business_Unit_A", Annual_Spend |-> 500,
     Sole_Source_Parts |-> 2, Single_Source_Parts |-> 0, Multi_Source_Parts |-> 0,
     Ramp_Time_Months |-> 24, Partnership_Score |-> 3, Innovation_Score |-> 3,
     Supply_Risk_Score |-> 1]

SupplierY ==
    [Business_Unit |-> "Business_Unit_A", Annual_Spend |-> 1,
     Sole_Source_Parts |-> 0, Single_Source_Parts |-> 0, Multi_Source_Parts |-> 15,
     Ramp_Time_Months |-> 3, Partnership_Score |-> 1, Innovation_Score |-> 1,
     Supply_Risk_Score |-> 3]

SupplierZ ==
    [Business_Unit |-> "Business_Unit_B", Annual_Spend |-> 100,
     Sole_Source_Parts |-> 2, Single_Source_Parts |-> 5, Multi_Source_Parts |-> 15,
     Ramp_Time_Months |-> 12, Partnership_Score |-> 2, Innovation_Score |-> 2,
     Supply_Risk_Score |-> 2]

TableDraws == {SupplierX, SupplierY, SupplierZ}

Tables == {generated(ds) : ds \in UNION {[1..n -> TableDraws] : n \in 0..MaxSuppliers}}

\* the draws and weight tables of the direct scoring calls
ScoreDraws ==
    {[Business_Unit |-> bu, Annual_Spend |-> sp,
      Sole_Source_Parts |-> pa[1], Single_Source_Parts |-> pa[2], Multi_Source_Parts |-> pa[3],
      Ramp_Time_Months |-> ra, Partnership_Score |-> ps, Innovation_Score |-> is,
      Supply_Risk_Score |-> rs] :
        bu \in BusinessUnits, sp \in {1, 500},
        pa \in {<<2, 0, 0>>, <<0, 0, 15>>, <<2, 5, 15>>, <<0, 0, 0>>},
        ra \in {3, 24}, ps \in {1, 3}, is \in {1, 3}, rs \in {1, 3}}

Weights(w0, w2, w3, w4, w5, w6, w7, w8, w9) ==
    [W0 |-> w0, W2 |-> w2, W3 |-> w3, W4 |-> w4, W5 |-> w5,
     W6 |-> w6, W7 |-> w7, W8 |-> w8, W9 |-> w9]

ScoreWeights ==
    {Weights(w0, w2, w3, w4, w5, w6, w7, w8, w9) :
        w0 \in {50, 100}, w2 \in {0, 20}, w3 \in {0, 20}, w4 \in {0, 20},
        w5 \in {0, 20}, w6 \in {0, 20}, w7 \in {0, 20}, w8 \in {0, 20}, w9 \in {0, 20}}
    \cup {Weights(50, 0, 0, 0, 0, 0, 50, 0, 0),
          Weights(100, 0, 0, 0, 0, 0, 0, 0, 0),
          Weights(100, 0, 0, 0, 0, 0, 100, 0, 0)}

ScoreWeightTables ==
    {InitialBuWeights} \cup {[bu \in BusinessUnits |-> w] : w \in ScoreWeights}

\* the draws of the direct scoring calls on arbitrary records: well-formed
\* ones, ones with a negative spend, a negative part count, a rating outside
\* 1..3, and ones of a business unit without weights
RecordDraws ==
    {[Business_Unit |-> bu, Annual_Spend |-> sp,
      Sole_Source_Parts |-> pa[1], Single_Source_Parts |-> pa[2], Multi_Source_Parts |-> pa[3],
      Ramp_Time_Months |-> 12, Partnership_Score |-> ps, Innovation_Score |-> 2,
      Supply_Risk_Score |-> rs] :
        bu \in BusinessUnits \cup {"Business_Unit_C"}, sp \in {-50, 1, 500},
        pa \in {<<2, 0, 0>>, <<2, -2, 0>>, <<0, 0, 15>>},
        ps \in {0, 3}, rs \in {1, 3, 5}}

\* the tables, weight configurations and thresholds of the lifecycle
MaxRows == 2

\* a generated supplier without parts
SupplierNoParts ==
    [Business_Unit |-> "Business_Unit_A", Annual_Spend |-> 100,
     Sole_Source_Parts |-> 0, Single_Source_Parts |-> 0, Multi_Source_Parts |-> 0,
     Ramp_Time_Months |-> 12, Partnership_Score |-> 2, Innovation_Score |-> 2,
     Supply_Risk_Score |-> 2]

\* a loaded supplier of a business unit without weights
SupplierUnknownUnit ==
    [Business_Unit |-> "Business_Unit_C", Annual_Spend |-> 100,
     Sole_Source_Parts |-> 2, Single_Source_Parts |-> 5, Multi_Source_Parts |-> 15,
     Ramp_Time_Months |-> 12, Partnership_Score |-> 2, Innovation_Score |-> 2,
     Supply_Risk_Score |-> 2]

\* a loaded supplier with a negative spend and a rating of 5
SupplierMalformed ==
    [Business_Unit |-> "Business_Unit_A", Annual_Spend |-> -50,
     Sole_Source_Parts |-> 0, Single_Source_Parts |-> 0, Multi_Source_Parts |-> 15,
     Ramp_Time_Months |-> 12, Partnership_Score |-> 3, Innovation_Score |-> 2,
     Supply_Risk_Score |-> 5]

GeneratedDraws == {SupplierX, SupplierZ, SupplierNoParts}

LoadedDraws == GeneratedDraws \cup {SupplierUnknownUnit, SupplierMalformed}

GeneratedInputs == UNION {[1..n -> GeneratedDraws] : n \in 0..MaxRows}

LoadedTables == {generated(ds) : ds \in UNION {[1..n -> LoadedDraws] : n \in 0..MaxRows}}

\* the two units' entries exchanged
SwappedBuWeights ==
    [Business_Unit_A |-> InitialBuWeights.Business_Unit_B,
     Business_Unit_B |-> InitialBuWeights.Business_Unit_A]

LifecycleWeightTables == {InitialBuWeights, SwappedBuWeights}

LifecycleThresholds ==
    {InitialThresholds,
     [Strategic |-> 90, Critical |-> 50, Operational |-> 10, Transactional |-> 0],
     [Strategic |-> 50, Critical |-> 85, Operational |-> 45, Transactional |-> 0]}

\* the draws and weight tables of the scoring calls compared with each other
RampValues == {0, 3, 12, 24}

SpendValues == {0, 1, 100, 500}

RiskValues == 1..3

MonotoneDraws ==
    {[Business_Unit |-> bu, Annual_Spend |-> sp,
      Sole_Source_Parts |-> 2, Single_Source_Parts |-> 5, Multi_Source_Parts |-> 15,
      Ramp_Time_Months |-> ra, Partnership_Score |-> 2, Innovation_Score |-> 2,
      Supply_Risk_Score |-> rs] :
        bu \in BusinessUnits, sp \in SpendValues, ra \in RampValues, rs \in RiskValues}

MonotoneWeightTables ==
    {InitialBuWeights}
    \cup {[bu \in BusinessUnits |-> w] :
              w \in {Weights(50, 20, 0, 20, 0, 20, 0, 20, 0),
                     Weights(100, 0, 0, 0, 40, 0, 0, 0, 60),
                     Weights(100, 0, 0, 0, 0, 0, 0, 0, 0)}}

\* the tables classified step by step
MaxPipelineRows == 3

PipelineDraws == GeneratedDraws \cup {SupplierUnknownUnit}

PipelineTables ==
    {generated(ds) : ds \in UNION {[1..n -> PipelineDraws] : n \in 0..MaxPipelineRows}}

\* the classified tables handed to the analyzer: spend and label of a row
MaxAnalyzerRows == 4

AnalyzerDraws ==
    {<<0, "Transactional">>, <<10, "Transactional">>, <<30, "Operational">>,
     <<60, "Strategic">>}

AnalyzerColumns == {"Supplier_ID", "Annual_Spend", "Classification"}

analyzer_table(ds) ==
    DataFrame(AnalyzerColumns,
              [i \in 1..Len(ds) |->
                  [Supplier_ID |-> i, Annual_Spend |-> ds[i][1], Classification |-> ds[i][2]]])

AnalyzerTables ==
    {analyzer_table(ds) : ds \in UNION {[1..n -> AnalyzerDraws] : n \in 1..MaxAnalyzerRows}}
    \cup {classified(InitialBuWeights, InitialThresholds, generated(<<>>))}

\* the classified tables of the analyzers on which every analysis is called
MaxInsightRows == 2

\* the largest num_records of generate_sample_data
MaxRecords == 2

\* records of generate_sample_data: the first day of the year with a risk
\* score on the edge of Low, a late-30 record of Critical risk, and a second
\* record of that day
ChainDraws ==
    { [Date |-> 1, Market |-> "AUTOMOTIVE", Material_Group |-> "WWMG",
       Material_ID |-> "MAT_10001", Planner |-> "Planner_01", Priority_Level |-> 2,
       Tracking_Count |-> 15, ESD_Planning_Status |-> "On_Time", Market_Max_Qty |-> 50,
       Supply_Risk_Score |-> <<2, 1>>],
      [Date |-> 33, Market |-> "INDUSTRIAL", Material_Group |-> "CCG",
       Material_ID |-> "MAT_10002", Planner |-> "Planner_02", Priority_Level |-> 5,
       Tracking_Count |-> 10, ESD_Planning_Status |-> "Late_30_days", Market_Max_Qty |-> 400,
       Supply_Risk_Score |-> <<9, 2>>],
      [Date |-> 33, Market |-> "AUTOMOTIVE", Material_Group |-> "CCG",
       Material_ID |-> "MAT_10003", Planner |-> "Planner_01", Priority_Level |-> 3,
       Tracking_Count |-> 20, ESD_Planning_Status |-> "Late_7_days", Market_Max_Qty |-> 150,
       Supply_Risk_Score |-> <<7, 2>>] }

ChainInputs == UNION {[1..n -> ChainDraws] : n \in 0..MaxRecords}

InsightDraws ==
    {[Business_Unit |-> "Business_Unit_A", Annual_Spend |-> 0, Sole_Source_Parts |-> 0,
      Innovation_Score |-> 3, Supply_Risk_Score |-> 1, Score |-> Num(10),
      Classification |-> "Transactional"],
     [Business_Unit |-> "Business_Unit_B", Annual_Spend |-> 10, Sole_Source_Parts |-> 0,
      Innovation_Score |-> 1, Supply_Risk_Score |-> 3, Score |-> Num(20),
      Classification |-> "Transactional"],
     [Business_Unit |-> "Business_Unit_A", Annual_Spend |-> 30, Sole_Source_Parts |-> 1,
      Innovation_Score |-> 2, Supply_Risk_Score |-> 2, Score |-> Num(50),
      Classification |-> "Operational"],
     [Business_Unit |-> "Business_Unit_B", Annual_Spend |-> 60, Sole_Source_Parts |-> 2,
      Innovation_Score |-> 3, Supply_Risk_Score |-> 3, Score |-> Num(90),
      Classification |-> "Strategic"]}

InsightColumns ==
    {"Supplier_ID", "Business_Unit", "Annual_Spend", "Sole_Source_Parts",
     "Innovation_Score", "Supply_Risk_Score", "Score", "Classification"}

insight_table(ds) ==
    DataFrame(InsightColumns,
              [i \in 1..Len(ds) |->
                  [f \in InsightColumns |-> IF f = "Supplier_ID" THEN i ELSE ds[i][f]]])

InsightTables ==
    {insight_table(ds) : ds \in UNION {[1..n -> InsightDraws] : n \in 1..MaxInsightRows}}

----------------------------------------------------------------------------
(* Specifications                                                          *)

\* Classification of a loaded table: every table of up to MaxSuppliers rows.
Init ==
    /\ suppliers_data \in {None} \cup Tables
    /\ bu_weights = InitialBuWeights
    /\ segmentation_thresholds = InitialThresholds
    /\ args = <<>>
    /\ returned = NoCall
    /\ data = None
    /\ analysis_results = <<>>
    /\ pc = "idle"
    /\ score_list = <<>>
    /\ classification_list = <<>>
    /\ chain_data = None
    /\ processed_data = None

Next == classify_suppliers_raise \/ classify_suppliers_run

Spec == Init /\ [][Next]_vars

\* Direct scoring calls: every draw under every weight table.
InitScore ==
    /\ suppliers_data = None
    /\ bu_weights \in ScoreWeightTables
    /\ segmentation_thresholds = InitialThresholds
    /\ args \in {<<[supplier_row |-> supplier(1, d), business_unit |-> d.Business_Unit]>> :
                    d \in ScoreDraws}
    /\ returned = NoCall
    /\ data = None
    /\ analysis_results = <<>>
    /\ pc = "idle"
    /\ score_list = <<>>
    /\ classification_list = <<>>
    /\ chain_data = None
    /\ processed_data = None

NextScore == calculate_supplier_score

SpecScore == InitScore /\ [][NextScore]_vars

\* Direct scoring calls on arbitrary records under the initial weights.
InitRecord ==
    /\ suppliers_data = None
    /\ bu_weights = InitialBuWeights
    /\ segmentation_thresholds = InitialThresholds
    /\ args \in {<<[supplier_row |-> supplier(1, d), business_unit |-> d.Business_Unit]>> :
                    d \in RecordDraws}
    /\ returned = NoCall
    /\ data = None
    /\ analysis_results = <<>>
    /\ pc = "idle"
    /\ score_list = <<>>
    /\ classification_list = <<>>
    /\ chain_data = None
    /\ processed_data = None

NextRecord == calculate_supplier_score \/ calculate_supplier_score_raise

SpecRecord == InitRecord /\ [][NextRecord]_vars

\* Direct scoring calls on records that differ in ramp time, spend and risk.
InitMonotone ==
    /\ suppliers_data = None
    /\ bu_weights \in MonotoneWeightTables
    /\ segmentation_thresholds = InitialThresholds
    /\ args \in {<<[supplier_row |-> supplier(1, d), business_unit |-> d.Business_Unit]>> :
                    d \in MonotoneDraws}
    /\ returned = NoCall
    /\ data = None
    /\ analysis_results = <<>>
    /\ pc = "idle"
    /\ score_list = <<>>
    /\ classification_list = <<>>
    /\ chain_data = None
    /\ processed_data = None

NextMonotone == calculate_supplier_score

SpecMonotone == InitMonotone /\ [][NextMonotone]_vars

\* classify_suppliers step by step on a loaded table.
InitPipeline ==
    /\ suppliers_data \in PipelineTables
    /\ bu_weights = InitialBuWeights
    /\ segmentation_thresholds \in LifecycleThresholds
    /\ args = <<>>
    /\ returned = NoCall
    /\ data = None
    /\ analysis_results = <<>>
    /\ pc = "idle"
    /\ score_list = <<>>
    /\ classification_list = <<>>
    /\ chain_data = None
    /\ processed_data = None

NextPipeline ==
    \/ classify_begin
    \/ \E i \in 1..Len(suppliers_data.rows) : score_row(i)
    \/ \E i \in 1..Len(suppliers_data.rows) : score_row_key_error(i)
    \/ store_scores
    \/ \E i \in 1..Len(suppliers_data.rows) : label_row(i)
    \/ store_classifications

SpecPipeline == InitPipeline /\ [][NextPipeline]_vars

\* A SegmentationAnalyzer constructed on a classified table.
InitAnalyzer ==
    /\ suppliers_data = None
    /\ bu_weights = InitialBuWeights
    /\ segmentation_thresholds = InitialThresholds
    /\ args = <<>>
    /\ returned = NoCall
    /\ data \in AnalyzerTables
    /\ analysis_results = <<>>
    /\ pc = "idle"
    /\ score_list = <<>>
    /\ classification_list = <<>>
    /\ chain_data = None
    /\ processed_data = None

NextAnalyzer ==
    spend_concentration_analysis_key_error \/ spend_concentration_analysis_run

SpecAnalyzer == InitAnalyzer /\ [][NextAnalyzer]_vars

\* A SegmentationAnalyzer on which the analyses, generate_actionable_insights
\* and export_analysis_summary are called in any order.
InitInsights ==
    /\ suppliers_data = None
    /\ bu_weights = InitialBuWeights
    /\ segmentation_thresholds = InitialThresholds
    /\ args = <<>>
    /\ returned = NoCall
    /\ data \in InsightTables
    /\ analysis_results = <<>>
    /\ pc = "idle"
    /\ score_list = <<>>
    /\ classification_list = <<>>
    /\ chain_data = None
    /\ processed_data = None

NextInsights ==
    \/ segment_profile_analysis
    \/ business_unit_analysis
    \/ risk_concentration_analysis
    \/ spend_concentration_analysis_run
    \/ innovation_potential_analysis
    \/ segmentation_effectiveness_metrics
    \/ generate_actionable_insights_key_error
    \/ generate_actionable_insights_run
    \/ export_analysis_summary_key_error
    \/ export_analysis_summary_run

SpecInsights == InitInsights /\ [][NextInsights]_vars

\* a fresh SupplyChainAnalyzer and the calls of its methods in any order
InitChain ==
    /\ suppliers_data = None
    /\ bu_weights = InitialBuWeights
    /\ segmentation_thresholds = InitialThresholds
    /\ args = <<>>
    /\ returned = NoCall
    /\ data = None
    /\ analysis_results = << >>
    /\ pc = "idle"
    /\ score_list = <<>>
    /\ classification_list = <<>>
    /\ chain_data = None
    /\ processed_data = None

NextChain ==
    \/ \E records \in ChainInputs : generate_sample_data(records)
    \/ clean_and_process_data_raise
    \/ clean_and_process_data_key_error
    \/ clean_and_process_data_run
    \/ calculate_trend_metrics_raise
    \/ calculate_trend_metrics_run
    \/ identify_outliers_and_alerts_raise
    \/ identify_outliers_and_alerts_run
    \/ generate_top_rankings_raise
    \/ generate_top_rankings_run

SpecChain == InitChain /\ [][NextChain]_vars

\* Lifecycle of a model: tables are generated or loaded, the configuration
\* is replaced and the table is classified, in any order.
InitLifecycle ==
    /\ suppliers_data = None
    /\ bu_weights = InitialBuWeights
    /\ segmentation_thresholds = InitialThresholds
    /\ args = <<>>
    /\ returned = NoCall
    /\ data = None
    /\ analysis_results = <<>>
    /\ pc = "idle"
    /\ score_list = <<>>
    /\ classification_list = <<>>
    /\ chain_data = None
    /\ processed_data = None

NextLifecycle ==
    \/ \E ds \in GeneratedInputs : generate_sample_supplier_data(ds)
    \/ \E table \in LoadedTables : load_suppliers_data(table)
    \/ \E w \in LifecycleWeightTables : set_bu_weights(w)
    \/ \E thresholds \in LifecycleThresholds : set_segmentation_thresholds(thresholds)
    \/ classify_suppliers_raise
    \/ classify_suppliers_key_error
    \/ classify_suppliers_run
    \/ analyze_segmentation_results_raise
    \/ analyze_segmentation_results_run

SpecLifecycle == InitLifecycle /\ [][NextLifecycle]_vars

----------------------------------------------------------------------------
(* Properties of classify_suppliers, checked under Spec                    *)

Segments == <<"Transactional", "Operational", "Critical", "Strategic">>

\* position of a label in the order Transactional < Operational < Critical < Strategic
SegmentRank(label) == CHOOSE k \in 1..Len(Segments) : Segments[k] = label

Rows == suppliers_data.rows

NRows == Len(suppliers_data.rows)

Classified ==
    /\ suppliers_data # None
    /\ {"Score", "Classification"} \subseteq suppliers_data.columns

\* number of rows of the table whose Score is <= the Score of row i
InclusiveCount(i) == Cardinality({j \in 1..NRows : Le(Rows[j].Score, Rows[i].Score)})

\* the percentile rank of row i is at least t percent
RankAtLeast(i, t) == 100 * InclusiveCount(i) >= t * NRows

\* C1: every row's label is the first met of percentile >= 95 Strategic,
\* >= 85 Critical, >= 45 Operational, else Transactional, and the number of
\* rows labelled Strategic is the number of rows with percentile >= 95.
C1_ThresholdTable ==
    Classified =>
        /\ \A i \in 1..NRows :
              Rows[i].Classification =
                  IF RankAtLeast(i, 95) THEN "Strategic"
                  ELSE IF RankAtLeast(i, 85) THEN "Critical"
                  ELSE IF RankAtLeast(i, 45) THEN "Operational"
                  ELSE "Transactional"
        /\ Cardinality({i \in 1..NRows : Rows[i].Classification = "Strategic"})
              = Cardinality({i \in 1..NRows : RankAtLeast(i, 95)})

\* a classified table with a single Strategic row, several Critical rows
\* and Transactional rows
C1_Witness ==
    /\ Classified
    /\ {Rows[i].Classification : i \in 1..NRows}
          = {"Strategic", "Critical", "Transactional"}
    /\ Cardinality({i \in 1..NRows : Rows[i].Classification = "Strategic"}) = 1
    /\ Cardinality({i \in 1..NRows : Rows[i].Classification = "Critical"}) > 1

\* C2: the percentile of a row is 100 * (rows with Score <= its Score) / (rows),
\* so every row holding the maximum score has percentile 100 and is Strategic.
C2_InclusiveRank ==
    Classified =>
        \A i \in 1..NRows :
            /\ percentile(column(suppliers_data, "Score"), Rows[i].Score)
                  = Norm(100 * InclusiveCount(i), NRows)
            /\ (\A j \in 1..NRows : Le(Rows[j].Score, Rows[i].Score)) =>
                  /\ percentile(column(suppliers_data, "Score"), Rows[i].Score) = Num(100)
                  /\ Rows[i].Classification = "Strategic"

\* several rows share the maximum score, next to lower-scoring rows
C2_Witness ==
    /\ Classified
    /\ \E i, j, k \in 1..NRows :
          /\ i # j
          /\ Rows[i].Score = Rows[j].Score
          /\ \A m \in 1..NRows : Le(Rows[m].Score, Rows[i].Score)
          /\ Lt(Rows[k].Score, Rows[i].Score)
          /\ Rows[i].Classification = "Strategic"

\* the rows carrying label l
Segment(l) == {i \in 1..NRows : Rows[i].Classification = l}

\* C3: after classification every row carries one Classification out of the
\* four labels; the four segments are disjoint and cover the table.
C3_Partition ==
    (returned = Outcome("classify_suppliers", "none", <<>>)) =>
        /\ Classified
        /\ \A i \in 1..NRows :
              /\ "Classification" \in DOMAIN Rows[i]
              /\ Rows[i].Classification \in {Segments[k] : k \in 1..Len(Segments)}
        /\ UNION {Segment(Segments[k]) : k \in 1..Len(Segments)} = 1..NRows
        /\ \A k, m \in 1..Len(Segments) :
              k # m => Segment(Segments[k]) \cap Segment(Segments[m]) = {}

\* a classified table of the largest size with three non-empty segments
C3_Witness ==
    /\ returned = Outcome("classify_suppliers", "none", <<>>)
    /\ NRows = MaxSuppliers
    /\ Cardinality({k \in 1..Len(Segments) : Segment(Segments[k]) # {}}) = 3

\* C4: if Score(A) >= Score(B) then A's segment is at least as strategic as B's.
C4_Monotone ==
    Classified =>
        \A a, b \in 1..NRows :
            Le(Rows[b].Score, Rows[a].Score) =>
                SegmentRank(Rows[a].Classification) >= SegmentRank(Rows[b].Classification)

\* three rows with strictly increasing scores and strictly increasing segments
C4_Witness ==
    /\ Classified
    /\ \E a, b, c \in 1..NRows :
          /\ Lt(Rows[a].Score, Rows[b].Score)
          /\ Lt(Rows[b].Score, Rows[c].Score)
          /\ SegmentRank(Rows[a].Classification) < SegmentRank(Rows[b].Classification)
          /\ SegmentRank(Rows[b].Classification) < SegmentRank(Rows[c].Classification)

\* C5: rows with equal scores get the same percentile, the fraction of the
\* table with score <= the tied value, and the same label, wherever they stand.
C5_Ties ==
    Classified =>
        \A i, j \in 1..NRows :
            Rows[i].Score = Rows[j].Score =>
                /\ InclusiveCount(i) = InclusiveCount(j)
                /\ Rows[i].Classification = Rows[j].Classification
                /\ Rows[i].Classification =
                      classification(Norm(100 * InclusiveCount(j), NRows),
                                     segmentation_thresholds)

\* tied rows that are not adjacent and do not hold the maximum score
C5_Witness ==
    /\ Classified
    /\ \E i, j, k, m \in 1..NRows :
          /\ i < k /\ k < j
          /\ Rows[i].Score = Rows[j].Score
          /\ Rows[k].Score # Rows[i].Score
          /\ Lt(Rows[i].Score, Rows[m].Score)
          /\ Rows[i].Classification = Rows[j].Classification
          /\ Rows[i].Classification # "Transactional"

\* the rows of the example: supplier X and supplier Y of Business_Unit_A
IsSupplierX(r) ==
    /\ r.Business_Unit = "Business_Unit_A"
    /\ r.Sole_Source_Ratio = Num(1) /\ r.Single_Source_Ratio = Num(0)
    /\ r.Multi_Source_Ratio = Num(0)
    /\ r.Ramp_Time_Months = 24 /\ r.Annual_Spend = 500
    /\ r.Partnership_Score = 3 /\ r.Innovation_Score = 3 /\ r.Supply_Risk_Score = 1

IsSupplierY(r) ==
    /\ r.Business_Unit = "Business_Unit_A"
    /\ r.Sole_Source_Ratio = Num(0) /\ r.Single_Source_Ratio = Num(0)
    /\ r.Multi_Source_Ratio = Num(1)
    /\ r.Ramp_Time_Months = 3 /\ r.Annual_Spend = 1
    /\ r.Partnership_Score = 1 /\ r.Innovation_Score = 1 /\ r.Supply_Risk_Score = 3

\* C8: under the Business_Unit_A weights W0=100, W2=30, W3=20, W4=1, W5=25,
\* W6=10, W7=25, W8=5, W9=5, supplier X scores strictly higher than supplier Y.
C8_ExampleOrder ==
    (/\ Classified
     /\ bu_weights["Business_Unit_A"] = Weights(100, 30, 20, 1, 25, 10, 25, 5, 5)) =>
        \A i, j \in 1..NRows :
            IsSupplierX(Rows[i]) /\ IsSupplierY(Rows[j]) =>
                Lt(Rows[j].Score, Rows[i].Score)

\* a scored table that holds supplier X and supplier Y
C8_Witness ==
    /\ Classified
    /\ bu_weights["Business_Unit_A"] = Weights(100, 30, 20, 1, 25, 10, 25, 5, 5)
    /\ \E i, j \in 1..NRows : IsSupplierX(Rows[i]) /\ IsSupplierY(Rows[j])

\* C9: a classify_suppliers run on a table that the previous run classified,
\* with weights and thresholds unchanged, leaves every Score and every
\* Classification as it was.
C9_Idempotent ==
    [][(/\ Classified
        /\ returned = Outcome("classify_suppliers", "none", <<>>)
        /\ classify_suppliers_run)
          => suppliers_data' = suppliers_data]_vars

\* a classified table of several rows with different labels, on which the
\* next run starts
C9_Witness ==
    /\ Classified
    /\ returned = Outcome("classify_suppliers", "none", <<>>)
    /\ NRows > 2
    /\ Cardinality({Rows[i].Classification : i \in 1..NRows}) > 2

\* C10: classify_suppliers on a table of zero rows raises EmptyDatasetError.
C10_EmptyDatasetError ==
    (/\ returned.op = "classify_suppliers"
     /\ suppliers_data # None
     /\ NRows = 0) => returned.raised = "EmptyDatasetError"

----------------------------------------------------------------------------
(* Properties of calculate_supplier_score, checked under SpecScore         *)

Scored ==
    /\ returned.op = "calculate_supplier_score"
    /\ returned.raised = "none"

\* the weights the call used
CallWeights == bu_weights[args[1].business_unit]

\* the weights of a unit's entry (the scale factor W0 and the component
\* weights W2..W9) are all non-negative and sum to at most 100
WeightsWithinBudget(w) ==
    /\ \A k \in DOMAIN w : w[k] >= 0
    /\ w.W0 + w.W2 + w.W3 + w.W4 + w.W5 + w.W6 + w.W7 + w.W8 + w.W9 <= 100

ReferenceScore(w, r) ==
    LET sourcing    == Div(Add(Mul(Num(w.W2), r.Sole_Source_Ratio),
                               Add(Mul(Num(w.W3), r.Single_Source_Ratio),
                                   Mul(Num(w.W4), r.Multi_Source_Ratio))), Num(100))
        ramp        == Div(Mul(Num(w.W5),
                               Sub(Num(1),
                                   Div(Num(1),
                                       Add(Num(1),
                                           Norm(r.Ramp_Time_Months * r.Ramp_Time_Months, 144))))),
                           Num(100))
        spend       == Div(Mul(Num(w.W6),
                               Sub(Num(1), Div(Num(1), Add(Num(1), Norm(r.Annual_Spend, 100))))),
                           Num(100))
        partnership == Div(Mul(Num(w.W7), Norm(r.Partnership_Score, 3)), Num(100))
        innovation  == Div(Mul(Num(w.W8), Norm(r.Innovation_Score, 3)), Num(100))
        risk        == Div(Mul(Num(w.W9), Norm(4 - r.Supply_Risk_Score, 3)), Num(100))
    IN  Mul(Mul(Norm(w.W0, 100), Num(100)),
            Add(sourcing, Add(ramp, Add(spend, Add(partnership, Add(innovation, risk))))))

\* C7: the returned score equals the reference formula, evaluated with the
\* weights of the record's business unit.
C7_ReferenceFormula ==
    Scored =>
        returned.value[1] = ReferenceScore(bu_weights[args[1].supplier_row.Business_Unit],
                                           args[1].supplier_row)

\* a call under the initial weights in which all six components are positive
C7_Witness ==
    /\ Scored
    /\ bu_weights = InitialBuWeights
    /\ args[1].supplier_row.Business_Unit = "Business_Unit_B"
    /\ args[1].supplier_row.Sole_Source_Parts > 0
    /\ args[1].supplier_row.Multi_Source_Parts > 0
    /\ Lt(Num(0), returned.value[1])

----------------------------------------------------------------------------
(* Properties of calculate_supplier_score on arbitrary records, checked    *)
(* under SpecRecord                                                        *)

\* a direct scoring call has ended
Called == returned.op = "calculate_supplier_score"

UnknownUnit == args[1].business_unit \notin DOMAIN bu_weights

\* C11: a direct scoring call for a business unit without an entry in the
\* weight configuration ends in the lookup error and returns no score, and
\* every call that returns a score is for a unit of the configuration and
\* returns the score under that unit's own weights.
C11_UnknownUnitError ==
    Called =>
        /\ UnknownUnit => (returned.raised = "KeyError" /\ returned.value = <<>>)
        /\ returned.value # <<>> =>
              /\ ~UnknownUnit
              /\ returned.value[1] =
                    Mul(total_score(bu_weights[args[1].business_unit], args[1].supplier_row),
                        Num(100))

C11_Witness ==
    /\ Called
    /\ UnknownUnit
    /\ returned.raised = "KeyError"
    /\ args[1].supplier_row.Annual_Spend = 500

\* the record breaks the data model: a negative spend or part count, a
\* rating outside 1..3, or nonzero part counts with a total of zero or less
Malformed(r) ==
    \/ r.Annual_Spend < 0
    \/ r.Sole_Source_Parts < 0 \/ r.Single_Source_Parts < 0 \/ r.Multi_Source_Parts < 0
    \/ r.Ramp_Time_Months < 0
    \/ r.Partnership_Score \notin 1..3
    \/ r.Innovation_Score \notin 1..3
    \/ r.Supply_Risk_Score \notin 1..3
    \/ /\ r.Sole_Source_Parts + r.Single_Source_Parts + r.Multi_Source_Parts <= 0
       /\ <<r.Sole_Source_Parts, r.Single_Source_Parts, r.Multi_Source_Parts>> # <<0, 0, 0>>

\* C12: a direct scoring call on a malformed record of a configured business
\* unit ends in a validation error and returns no score.
C12_ValidationError ==
    (Called /\ ~UnknownUnit /\ Malformed(args[1].supplier_row)) =>
        (returned.raised = "ValidationError" /\ returned.value = <<>>)

----------------------------------------------------------------------------
(* Properties of the lifecycle, checked under SpecLifecycle                *)

\* C13: whenever the table carries Score and Classification, they are the
\* values a classification run over the current table under the current
\* weights and thresholds produces.
C13_NeverStale ==
    Classified =>
        suppliers_data = classified(bu_weights, segmentation_thresholds, suppliers_data)

\* the last operation is a classification run that returned the table
JustClassified == returned = Outcome("classify_suppliers", "none", <<>>)

\* the labels whose minimum percentile row i meets under the current thresholds
MetLabels(i) ==
    {l \in DOMAIN segmentation_thresholds : RankAtLeast(i, segmentation_thresholds[l])}

\* C14: after a classification run under any thresholds, every row carries
\* the label of the pair with the highest minimum percentile among the pairs
\* whose minimum the row's percentile meets or exceeds.
C14_HighestMinimumFirst ==
    JustClassified =>
        \A i \in 1..NRows :
            /\ Rows[i].Classification \in MetLabels(i)
            /\ \A l \in MetLabels(i) :
                  segmentation_thresholds[l] <=
                      segmentation_thresholds[Rows[i].Classification]

JustGenerated == returned.op = "generate_sample_supplier_data"

TotalParts(r) == r.Sole_Source_Parts + r.Single_Source_Parts + r.Multi_Source_Parts

\* q is the quotient n / d
IsQuotient(q, n, d) == q[1] * d = n * q[2]

\* C17: in every generated row each sourcing ratio is its part count divided
\* by max(total parts, 1); the three ratios sum to 1 when total parts > 0
\* and are all 0 when total parts is 0.
C17_SourcingRatios ==
    JustGenerated =>
        \A i \in 1..NRows :
            LET r == Rows[i]
                floor == IF TotalParts(r) > 1 THEN TotalParts(r) ELSE 1
            IN  /\ IsQuotient(r.Sole_Source_Ratio, r.Sole_Source_Parts, floor)
                /\ IsQuotient(r.Single_Source_Ratio, r.Single_Source_Parts, floor)
                /\ IsQuotient(r.Multi_Source_Ratio, r.Multi_Source_Parts, floor)
                /\ TotalParts(r) > 0 =>
                      Add(Add(r.Sole_Source_Ratio, r.Single_Source_Ratio),
                          r.Multi_Source_Ratio) = Num(1)
                /\ TotalParts(r) = 0 =>
                      /\ r.Sole_Source_Ratio = Num(0)
                      /\ r.Single_Source_Ratio = Num(0)
                      /\ r.Multi_Source_Ratio = Num(0)

C17_Witness ==
    /\ JustGenerated
    /\ NRows = 2
    /\ TotalParts(Rows[1]) = 0
    /\ TotalParts(Rows[2]) = 22
    /\ Rows[2].Multi_Source_Ratio = <<15, 22>>

\* the row cannot be scored under the current configuration or breaks the
\* data model
Offending(r) == r.Business_Unit \notin DOMAIN bu_weights \/ Malformed(r)

HasDerived(r) == "Score" \in DOMAIN r \/ "Classification" \in DOMAIN r

\* C19: after classify_suppliers on a table with an offending row, either
\* the call ended in an error and no row carries Score or Classification, or
\* exactly the rows that are not offending carry them.
C19_RejectOrValidSubset ==
    (returned.op = "classify_suppliers" /\ suppliers_data # None
        /\ \E i \in 1..NRows : Offending(Rows[i])) =>
        \/ /\ returned.raised # "none"
           /\ \A i \in 1..NRows : ~HasDerived(Rows[i])
        \/ \A i \in 1..NRows :
              /\ ("Score" \in DOMAIN Rows[i]) <=> ~Offending(Rows[i])
              /\ ("Classification" \in DOMAIN Rows[i]) <=> ~Offending(Rows[i])

DerivedColumns == {"Score", "Classification"}

\* C20: a classify_suppliers call leaves the number of rows, their order and
\* every input attribute of every row as they were; the only columns it adds
\* are Score and Classification.
C20_InputsKept ==
    [][returned'.op = "classify_suppliers" =>
          IF suppliers_data = None THEN suppliers_data' = None
          ELSE /\ suppliers_data' # None
               /\ Len(suppliers_data'.rows) = Len(suppliers_data.rows)
               /\ suppliers_data'.columns \ DerivedColumns =
                      suppliers_data.columns \ DerivedColumns
               /\ \A i \in 1..Len(suppliers_data.rows) :
                      /\ DOMAIN suppliers_data'.rows[i] \ DerivedColumns =
                             DOMAIN suppliers_data.rows[i] \ DerivedColumns
                      /\ \A f \in DOMAIN suppliers_data.rows[i] \ DerivedColumns :
                             suppliers_data'.rows[i][f] = suppliers_data.rows[i][f]]_vars

C20_Witness ==
    /\ JustClassified
    /\ Classified
    /\ NRows = 2
    /\ Rows[1].Business_Unit = "Business_Unit_B"
    /\ Rows[2].Business_Unit = "Business_Unit_A"
    /\ Rows[2].Annual_Spend = 500
    /\ bu_weights = SwappedBuWeights

----------------------------------------------------------------------------
(* Frame of calculate_supplier_score, checked under SpecScore              *)

\* C18: a calculate_supplier_score call leaves the record, the weight
\* configuration and every other field of the model as they were, and the
\* score it returns is determined by the record and the weights alone.
C18_Pure ==
    [][returned'.op = "calculate_supplier_score" =>
          /\ UNCHANGED <<args, bu_weights, suppliers_data, segmentation_thresholds,
                         data, analysis_results, pipeline, chain>>
          /\ returned'.value =
                <<Mul(total_score(bu_weights[args[1].business_unit], args[1].supplier_row),
                      Num(100))>>]_vars

C18_Witness ==
    /\ Called
    /\ returned.value # <<>>
    /\ bu_weights = [bu \in BusinessUnits |-> Weights(50, 20, 0, 20, 0, 20, 0, 20, 0)]
    /\ args[1].business_unit = "Business_Unit_B"
    /\ args[1].supplier_row.Annual_Spend = 500

----------------------------------------------------------------------------
(* Properties of spend_concentration_analysis, checked under SpecAnalyzer  *)

\* the last operation is a spend concentration analysis that returned
JustAnalyzed ==
    /\ returned.op = "spend_concentration_analysis"
    /\ returned.raised = "none"

Spend == column(data, "Annual_Spend")

\* cumulative spend of the first k suppliers in descending order of spend
CumulativeSpend(k) == Sum(SubSeq(sorted_spend(Spend), 1, k))

\* the first k suppliers hold at least 80% of the total spend
Reaches80(k) == CumulativeSpend(k) * 100 >= 80 * Sum(Spend)

\* C15: on a table of positive total spend, pareto_80_supplier_count is the
\* size of the smallest prefix of the suppliers in descending order of spend
\* whose cumulative share of the total spend is at least 80%.
C15_SmallestPrefix ==
    (JustAnalyzed /\ Sum(Spend) > 0) =>
        LET count == analysis_results.spend_analysis.pareto_80_supplier_count
        IN  /\ count \in 1..Len(Spend)
            /\ Reaches80(count)
            /\ \A k \in 1..(count - 1) : ~Reaches80(k)

\* C16: on a table of positive total spend, pareto_80_supplier_count is the
\* count of the same table with one more supplier whose Annual_Spend is 0.
C16_ZeroSpendInsensitive ==
    (JustAnalyzed /\ Sum(Spend) > 0) =>
        analysis_results.spend_analysis.pareto_80_supplier_count =
            spend_analysis(DataFrame(data.columns,
                Append(data.rows,
                       [Supplier_ID |-> Len(data.rows) + 1, Annual_Spend |-> 0,
                        Classification |-> "Transactional"]))).pareto_80_supplier_count

C16_Witness ==
    /\ JustAnalyzed
    /\ Spend = <<10, 0, 30, 10>>
    /\ analysis_results.spend_analysis.pareto_80_supplier_count = 2

----------------------------------------------------------------------------
(* Properties of the steps of classify_suppliers, checked under            *)
(* SpecPipeline                                                            *)

\* C21: a label is computed only when the Score column holds the scores of
\* all rows, every score and label computed so far is the one of its row in
\* the result of a whole classification, and whatever the order of the
\* iterations the call returns that result.
C21_Barrier ==
    /\ (pc = "scoring") => DOMAIN classification_list = {}
    /\ \A i \in DOMAIN score_list :
          score_list[i] = scores(bu_weights, suppliers_data)[i]
    /\ (pc = "labelling" \/ DOMAIN classification_list # {}) =>
          /\ "Score" \in suppliers_data.columns
          /\ DOMAIN score_list = 1..NRows
          /\ column(suppliers_data, "Score") = scores(bu_weights, suppliers_data)
          /\ \A i \in DOMAIN classification_list :
                classification_list[i] =
                    classified(bu_weights, segmentation_thresholds,
                               suppliers_data).rows[i].Classification
    /\ (pc = "idle" /\ JustClassified) =>
          suppliers_data = classified(bu_weights, segmentation_thresholds, suppliers_data)

C21_Witness ==
    /\ pc = "labelling"
    /\ NRows = 3
    /\ Rows[1].Annual_Spend = 500
    /\ Rows[2].Business_Unit = "Business_Unit_B"
    /\ TotalParts(Rows[3]) = 0
    /\ DOMAIN classification_list = {2}
    /\ classification_list[2] = "Operational"
    /\ segmentation_thresholds = InitialThresholds

----------------------------------------------------------------------------
(* Monotonicity of calculate_supplier_score, checked under SpecMonotone    *)

\* the score of the call's record with field f set to v, under the call's weights
ScoreWith(f, v) ==
    Mul(total_score(CallWeights, [args[1].supplier_row EXCEPT ![f] = v]), Num(100))

\* C22: under non-negative weights the returned score is not above the score
\* of the same record with a longer ramp time, with a larger spend or with a
\* lower risk rating; the ramp component times 100 is at most W5 and the
\* spend component times 100 at most W6, below them when the weight is
\* positive; the spend component of a record with spend 0 is 0.
C22_Monotone ==
    (Scored /\ \A k \in DOMAIN CallWeights : CallWeights[k] >= 0) =>
        LET r == args[1].supplier_row
            w == CallWeights
            s == returned.value[1]
        IN  /\ \A m \in RampValues :
                  m >= r.Ramp_Time_Months => Le(s, ScoreWith("Ramp_Time_Months", m))
            /\ Le(Mul(ramp_component(w, r), Num(100)), Num(w.W5))
            /\ w.W5 > 0 => Lt(Mul(ramp_component(w, r), Num(100)), Num(w.W5))
            /\ \A a \in SpendValues :
                  a >= r.Annual_Spend => Le(s, ScoreWith("Annual_Spend", a))
            /\ Le(Mul(spend_component(w, r), Num(100)), Num(w.W6))
            /\ w.W6 > 0 => Lt(Mul(spend_component(w, r), Num(100)), Num(w.W6))
            /\ r.Annual_Spend = 0 => spend_component(w, r) = Num(0)
            /\ \A k \in RiskValues :
                  k <= r.Supply_Risk_Score => Le(s, ScoreWith("Supply_Risk_Score", k))

C22_Witness ==
    /\ Scored
    /\ bu_weights = InitialBuWeights
    /\ args[1].business_unit = "Business_Unit_A"
    /\ args[1].supplier_row.Annual_Spend = 0
    /\ args[1].supplier_row.Ramp_Time_Months = 3
    /\ args[1].supplier_row.Supply_Risk_Score = 3
    /\ Lt(returned.value[1], ScoreWith("Annual_Spend", 500))
    /\ Lt(returned.value[1], ScoreWith("Ramp_Time_Months", 24))
    /\ Lt(returned.value[1], ScoreWith("Supply_Risk_Score", 1))

----------------------------------------------------------------------------
(* Call order of SupplierScoringModel, checked under SpecLifecycle         *)

HasClassification ==
    suppliers_data # None /\ "Classification" \in suppliers_data.columns

----------------------------------------------------------------------------
(* Properties of generate_actionable_insights and export_analysis_summary, *)
(* checked under SpecInsights                                              *)

\* C24: whatever analyses have run before, a generate_actionable_insights
\* call ends with every result it reads in analysis_results and returns its
\* list of insights.
C24_InsightsAvailable ==
    returned.op = "generate_actionable_insights" =>
        /\ returned.raised = "none"
        /\ ReadResults \subseteq DOMAIN analysis_results
        /\ returned.value # <<>>

SummaryResults == ReadResults \cup {"business_unit_analysis"}

\* C25: when export_analysis_summary has returned, each of the six results
\* in the summary is the one stored in analysis_results.
C25_SummaryConsistent ==
    (returned.op = "export_analysis_summary" /\ returned.raised = "none") =>
        \A key \in SummaryResults :
            returned.value[1][key] = get(analysis_results, key)

\* the methods of SupplyChainAnalyzer that read processed_data
Readers == {"calculate_trend_metrics", "identify_outliers_and_alerts", "generate_top_rankings"}

\* C26: clean_and_process_data called before any data is loaded raises
\* ValueError and leaves data and processed_data as they are; when it
\* returns, data is unchanged and processed_data is set to the table it
\* returns, which carries the derived columns; a reader method returns a
\* result only when processed_data is set, and processed_data is set by
\* nothing but a clean_and_process_data that returns.
C26_CallOrder ==
    [][/\ (returned'.op = "clean_and_process_data" /\ chain_data = None)
            => (returned'.raised = "ValueError" /\ UNCHANGED chain)
       /\ (returned'.op = "clean_and_process_data" /\ returned'.raised = "none")
            => /\ chain_data' = chain_data
               /\ processed_data' # None
               /\ returned'.value = <<processed_data'>>
               /\ DerivedChainColumns \subseteq processed_data'.columns
       /\ (returned'.op \in Readers /\ returned'.raised = "none")
            => (processed_data # None /\ UNCHANGED chain)
       /\ processed_data' # processed_data
            => (returned'.op = "clean_and_process_data" /\ returned'.raised = "none")]_vars

\* the alerts are returned for a processed table of two records while the
\* raw table is still without the derived columns
C26_Witness ==
    /\ returned.op = "identify_outliers_and_alerts"
    /\ returned.raised = "none"
    /\ Len(returned.value[1]) = 3
    /\ chain_data # None
    /\ chain_data.columns = RawColumns
    /\ processed_data # None
    /\ Len(processed_data.rows) = 2
    /\ processed_data.rows[1].Week = 52
    /\ processed_data.rows[2].Risk_Category = "Critical"

=============================================================================
